---------------------------- MODULE Spec2Model ----------------------------
(***************************************************************************)
(* A model of mwxdump's two core subsystems: the in-process memory key     *)
(* scanner (core/src/wechat/key/windows/win_key_extractor_v4.rs) and the   *)
(* page-level database decryption engine (core/src/wechat/decrypt).        *)
(***************************************************************************)
EXTENDS Integers, Sequences, FiniteSets, TLC

(***************************************************************************)
(* Part 1.  The memory key scanner: KeyExtractorV4::_extract_key_impl, its *)
(* producer thread (find_memory_impl) and its worker threads (worker_impl).*)
(***************************************************************************)

\* Number of worker threads: num_cpus::get().max(2), host dependent.
NumWorkers == 2

Workers == 1..NumWorkers

\* V4_KEY_PATTERN.len(), the window width of memory.windows(..).
PATTERN_LEN == 24
\* std::mem::size_of::<usize>() of the (64-bit) build.
PTR_SIZE == 8
\* The worker loads the stop flag at windows whose index is a multiple of this.
STOP_CHECK_EVERY == 100
\* region_size > 1024 * 1024
REGION_MIN_SIZE == 1048576
\* crossbeam_channel::bounded::<String>(1)
RESULT_CAP == 1

\* A pointer is the 8 bytes in front of a sentinel match, least significant
\* byte first; usize::from_le_bytes / u64 comparison is done on the bytes.
Ptr(b1, b2, b3, b4, b5, b6, b7, b8) == <<b1, b2, b3, b4, b5, b6, b7, b8>>

\* a < b for two little-endian 8-byte unsigned values.
LeLess(a, b) ==
    \E k \in 1..PTR_SIZE :
        /\ a[k] < b[k]
        /\ \A j \in (k + 1)..PTR_SIZE : a[j] = b[j]

P_0x10000        == Ptr(0, 0, 1, 0, 0, 0, 0, 0)
P_0x7FFFFFFF     == Ptr(255, 255, 255, 127, 0, 0, 0, 0)
P_0x7FFFFFFFFFFF == Ptr(255, 255, 255, 255, 255, 127, 0, 0)

\* KeyExtractorV4::is_valid_pointer: the architecture's user range.
is_valid_pointer(ptr, is64) ==
    IF is64
    THEN LeLess(P_0x10000, ptr) /\ LeLess(ptr, P_0x7FFFFFFFFFFF)
    ELSE LeLess(P_0x10000, ptr) /\ LeLess(ptr, P_0x7FFFFFFF)

\* The range test worker_impl applies (line 194): the literal 64-bit range,
\* whatever the target's architecture.
WorkerPtrGate(ptr, is64) ==
    LeLess(P_0x10000, ptr) /\ LeLess(ptr, P_0x7FFFFFFFFFFF)

-----------------------------------------------------------------------------
(* The target's memory, as the OS primitives show it to the scanner.        *)

\* A sentinel match inside a region: the window index it starts at, the 8
\* bytes in front of it (meaningful when pos >= 8), and what
\* ReadProcessMemory finds at that address: "target" (the 32 bytes of
\* TARGET_KEY), "other" (32 other bytes) or "unreadable".
Hit(pos, ptr, mem) == [pos |-> pos, ptr |-> ptr, mem |-> mem]

P_key      == Ptr(0, 0, 2, 0, 0, 0, 0, 0)          \* 0x20000
P_0x10001  == Ptr(1, 0, 1, 0, 0, 0, 0, 0)
P_0x7FFFFFFE == Ptr(254, 255, 255, 127, 0, 0, 0, 0)
P_0x80000000 == Ptr(0, 0, 0, 128, 0, 0, 0, 0)
P_0x7FFFFFFFFFFE == Ptr(254, 255, 255, 255, 255, 127, 0, 0)
P_0x800000000000 == Ptr(0, 0, 0, 0, 0, 128, 0, 0)
P_zero     == Ptr(0, 0, 0, 0, 0, 0, 0, 0)

\* A region as VirtualQueryEx reports it (State, Protect & PAGE_READWRITE,
\* Type, RegionSize), whether ReadProcessMemory of the whole region succeeds,
\* and the sentinel matches in its bytes, highest window index first (the
\* order in which .enumerate().rev() meets them).
Region(state, rw, type, size, readOk, hits) ==
    [state |-> state, rw |-> rw, type |-> type, size |-> size,
     readOk |-> readOk, hits |-> hits]

Heap(size, hits) == Region("commit", TRUE, "private", size, TRUE, hits)

R_key      == Heap(2097152, << Hit(1048700, P_key, "target") >>)
R_key2     == Heap(1048700, << Hit(500, P_key, "target") >>)
R_mixed    == Heap(1048600, << Hit(1048500, P_0x10001, "other"),
                               Hit(1048300, P_0x10000, "other"),
                               Hit(4096, P_key, "target") >>)
R_fail     == Heap(1048600, << Hit(1048000, P_0x7FFFFFFE, "unreadable"),
                               Hit(1000, P_0x7FFFFFFE, "other") >>)
R_edge32   == Heap(1048600, << Hit(2000, P_0x7FFFFFFF, "other"),
                               Hit(1030, P_0x80000000, "target") >>)
R_edge64   == Heap(1048600, << Hit(3000, P_0x7FFFFFFFFFFF, "target"),
                               Hit(2030, P_0x800000000000, "target"),
                               Hit(1000, P_0x7FFFFFFFFFFE, "other") >>)
R_front    == Heap(1048600, << Hit(640, P_key, "target"),
                               Hit(0, P_zero, "other") >>)
R_short    == Heap(1048600, << Hit(3, P_zero, "other") >>)
R_empty    == Heap(1048600, << >>)
R_small    == Heap(1048576, << Hit(640, P_key, "target") >>)
R_image    == Region("commit", TRUE, "image", 2097152, TRUE,
                     << Hit(640, P_key, "target") >>)
R_free     == Region("free", FALSE, "private", 2097152, TRUE, << >>)
R_noread   == Region("commit", TRUE, "private", 2097152, FALSE,
                     << Hit(640, P_key, "target") >>)

\* The address-space layouts the scanner is run on: the regions in address
\* order, as successive VirtualQueryEx calls return them.
Layouts ==
    { << R_key >>,
      << R_key, R_key2 >>,
      << R_mixed, R_key >>,
      << R_mixed, R_key, R_empty >>,
      << R_fail, R_empty >>,
      << R_edge32 >>,
      << R_edge64 >>,
      << R_front, R_free >>,
      << R_short, R_key >>,
      << R_key, R_short >>,
      << R_small, R_image, R_noread >>,
      << R_noread, R_fail >> }


-----------------------------------------------------------------------------
(* The state of the decryption engine (Part 2) and of the batch driver      *)
(* (Part 3), declared here so that every action can say what it leaves      *)
(* alone.                                                                   *)

VARIABLES
    file,        \* the encrypted input file
    key,         \* the key handed to the call
    call,        \* the caller of the per-file decryption: [entry, pc, res]
    seq,         \* decrypt_database_sequential: [pc, page, res]
    seqOut,      \* its output file: [created, data]
    par,         \* decrypt_database_parallel: [pc, res]
    parOut,      \* its output file: [created, data]
    rd,          \* stage A, the read task: [pc, page, batch, res]
    pageQ,       \* mpsc channel of PageTask, capacity batch_size * 2
    pw,          \* stage B, the process tasks: [pc, out]
    resQ,        \* mpsc channel of ProcessedPage, capacity batch_size * 2
    wr,          \* stage C, the write task: [pc, pending, next, res]
    reordered,   \* whether a page reached the writer ahead of its turn
    env          \* the environment of the call: [write_fail, info_enabled,
                 \* join_fail]

fileVars == << file, key, call, seq, seqOut, par, parOut, rd, pageQ, pw,
               resQ, wr, reordered, env >>

VARIABLES
    files,       \* the files collect_files_recursively returned
    threadsOpt,  \* DecryptArgs::threads, an Option<usize>: [some, n]
    batch,       \* handle_directory_decrypt: [pc, threads, permits, next,
                 \*   streamDone, success, failed, res]
    task,        \* the per-file futures: [pc, res]
    outFiles     \* the output file of each input file: [created, data]

batchVars == << files, threadsOpt, batch, task, outFiles >>

\* The decryption engine and the batch driver at rest, while the scanner runs.
NoOutput == [created |-> FALSE, data |-> << >>]

FileIdle ==
    /\ file = [sqlite |-> FALSE, pages |-> << >>]
    /\ key = [id |-> "none", len |-> 0]
    /\ call = [entry |-> "none", pc |-> "ended", res |-> "none"]
    /\ seq = [pc |-> "idle", page |-> 0, res |-> "none"]
    /\ seqOut = NoOutput
    /\ par = [pc |-> "idle", res |-> "none"]
    /\ parOut = NoOutput
    /\ rd = [pc |-> "idle", page |-> 0, batch |-> << >>, res |-> "none"]
    /\ pageQ = << >>
    /\ pw = << >>
    /\ resQ = << >>
    /\ wr = [pc |-> "idle", pending |-> {}, next |-> 0, res |-> "none"]
    /\ reordered = FALSE
    /\ env = [write_fail |-> 0, info_enabled |-> TRUE, join_fail |-> -1]

BatchIdle ==
    /\ files = << >>
    /\ threadsOpt = [some |-> FALSE, n |-> 0]
    /\ batch = [pc |-> "idle"]
    /\ task = << >>
    /\ outFiles = << >>

\* The state of CachedKeyValidator and of its callers.
VARIABLES
    max_memory_entries, \* CacheConfig::max_memory_entries
    cache,              \* the key cache: the entries [ck, keys]
    version_cache,      \* the version cache: the CacheKeys mapped to V4
    cop,                \* the calls in progress, one per caller
    opsLeft,            \* how many more calls may start
    evicted             \* whether store_in_cache has removed entries

cacheVars == << max_memory_entries, cache, version_cache, cop, opsLeft,
                evicted >>

CacheIdle ==
    /\ max_memory_entries = 0
    /\ cache = {}
    /\ version_cache = {}
    /\ cop = << >>
    /\ opsLeft = 0
    /\ evicted = FALSE

\* Everything outside the scanner, the decryption engine and the batch
\* driver.
\* The state of one list_processes call and of one data-directory resolution.
VARIABLES
    lp,                 \* list_processes: its inputs, position and result
    rs                  \* find_wechat_data_directory: the same

procVars == << lp >>

ProcIdle == lp = [pc |-> "off"]

dirVars == << rs >>

DirIdle == rs = [pc |-> "off"]

\* The memory gauge of a ParallelDecryptor.
VARIABLES
    mon                 \* MemoryMonitor: [max_memory_mb, usage]

monVars == << mon >>

\* 1 MiB, the unit of max_memory_mb (MemoryMonitor::new)
MIB == 1048576

\* ParallelDecryptConfig::default().max_memory_mb
DEFAULT_MAX_MEMORY_MB == 512

\* MemoryMonitor::new(max_memory_mb): nothing is counted yet.
MemoryMonitor_new(max_memory_mb) ==
    [max_memory_mb |-> max_memory_mb, usage |-> 0]

MonIdle == mon = MemoryMonitor_new(DEFAULT_MAX_MEMORY_MB)

\* One search_memory_for_pattern call.
VARIABLES
    ms                  \* its inputs, its locals and its position

memVars == << ms >>

MemIdle == ms = [pc |-> "off"]

\* The output paths of one handle_directory_decrypt run.
VARIABLES
    op                  \* [pc, files, threads, permits, next, task]

pathVars == << op >>

PathIdle == op = [pc |-> "off"]

restVars == << cacheVars, procVars, dirVars, monVars, memVars, pathVars >>

RestIdle ==
    CacheIdle /\ ProcIdle /\ DirIdle /\ MonIdle /\ MemIdle /\ PathIdle

-----------------------------------------------------------------------------
(* The scanner's state.                                                     *)

VARIABLES
    layout,      \* the target's regions (fixed during a scan)
    is64,        \* WechatProcessInfo::is_64_bit of the target
    stop,        \* stop_signal: AtomicBool
    success,     \* success_counter: AtomicUsize
    failure,     \* failure_counter: AtomicUsize
    memQ,        \* the unbounded buffer channel: indices of the regions sent
    result,      \* the bounded(1) result channel
    prod,        \* the producer thread: [pc, idx]
    wk,          \* the worker threads: [pc, buf, k, order, saw]
    main,        \* _extract_key_impl itself: [pc, jw, res]
    sendLog,     \* every try_send on the result channel: [w, order, ok]
    readLog,     \* pointers ReadProcessMemory was asked to read 32 bytes at
    validLog,    \* pointers whose 32 bytes were handed to validate_key_impl
    hnd          \* the process handle of each thread: [raw, wrapped, closes]

scanVars == << layout, is64, stop, success, failure, memQ, result, prod, wk,
               main, sendLog, readLog, validLog, hnd >>

\* A thread that holds no handle (yet).
NoHandle == [raw |-> "none", wrapped |-> FALSE, closes |-> 0]

\* order: what success_counter.fetch_add returned to the worker, -1 before;
\* saw: the worker has loaded stop_signal as true, or stored true in it.
WorkerInit == [pc |-> "open", buf |-> 0, k |-> 0, order |-> -1,
               saw |-> FALSE]

\* _extract_key_impl, lines 67-125: channels, flag and counters created, the
\* workers and the producer spawned.
InitScan ==
    /\ layout \in Layouts
    /\ is64 \in BOOLEAN
    /\ stop = FALSE
    /\ success = 0
    /\ failure = 0
    /\ memQ = << >>
    /\ result = << >>
    /\ prod = [pc |-> "open", idx |-> 1]
    /\ wk = [w \in Workers |-> WorkerInit]
    /\ main = [pc |-> "joinProducer", jw |-> 1, res |-> "none"]
    /\ sendLog = {}
    /\ readLog = {}
    /\ validLog = {}
    /\ hnd = [prod |-> NoHandle, wk |-> [w \in Workers |-> NoHandle]]
    /\ FileIdle
    /\ BatchIdle
    /\ RestIdle

\* The scanner at rest, while the decryption engine or the batch driver runs.
ScanIdle ==
    /\ layout = << >>
    /\ is64 = TRUE
    /\ stop = FALSE
    /\ success = 0
    /\ failure = 0
    /\ memQ = << >>
    /\ result = << >>
    /\ prod = [pc |-> "idle", idx |-> 1]
    /\ wk = << >>
    /\ main = [pc |-> "idle", jw |-> 1, res |-> "none"]
    /\ sendLog = {}
    /\ readLog = {}
    /\ validLog = {}
    /\ hnd = [prod |-> NoHandle, wk |-> << >>]

-----------------------------------------------------------------------------
(* The Handle wrapper, src/core/src/utils/windows/handle.rs.

   A raw HANDLE is null, INVALID_HANDLE_VALUE or the handle of an open
   object.  What OpenProcess can return inside its Ok is decided by the
   windows crate, outside this repository: every raw value is allowed for.  *)

INVALID_HANDLE_VALUE == "invalid"

RawHandles == {"null", INVALID_HANDLE_VALUE, "open"}

\* HANDLE::is_invalid
is_invalid(raw) == raw \in {"null", INVALID_HANDLE_VALUE}

\* Handle::new that rejects the null handle only.
Handle_new_ok_nullonly(raw) == raw # "null"

\* Handle::new, lines 50-56: whether the raw handle is wrapped.
Handle_new_ok(raw) == ~(is_invalid(raw) \/ raw = INVALID_HANDLE_VALUE)

Handle_new(raw) == [raw |-> raw, wrapped |-> TRUE, closes |-> 0]

\* Drop for Handle, lines 64-68.
HandleDrop(h) ==
    IF h.wrapped /\ ~is_invalid(h.raw) THEN [h EXCEPT !.closes = @ + 1] ELSE h

\* What OpenProcess and Handle::new lead to: the error of OpenProcess, or
\* its raw handle wrapped, or its raw handle refused.
OpenResults == {"err"} \cup RawHandles

Opened(o) == o # "err" /\ Handle_new_ok(o)

ThreadEnd == {"done", "panicked"}

\* The handle of a thread is dropped in the step in which the thread's
\* function returns or unwinds.
DropAtEnd(h, pc, pc2) ==
    IF pc \notin ThreadEnd /\ pc2 \in ThreadEnd THEN HandleDrop(h) ELSE h

HandleTrack ==
    hnd' = [prod |-> DropAtEnd(hnd.prod, prod.pc, prod'.pc),
            wk |-> [w \in DOMAIN wk |->
                       DropAtEnd(hnd.wk[w], wk[w].pc, wk'[w].pc)]]

-----------------------------------------------------------------------------
(* The producer: find_memory_impl.                                          *)

\* The region filter of find_memory_impl, lines 337-340.
RegionEligible(r) ==
    /\ r.state = "commit"
    /\ r.rw
    /\ r.type = "private"
    /\ r.size > REGION_MIN_SIZE

ProdGoto(pc, idx) == prod' = [pc |-> pc, idx |-> idx]

\* A cursor that stays on the region it has just dealt with.
next_addr_stuck(idx) == idx

\* Lines 375-384: the cursor moves to the end of the region VirtualQueryEx
\* described, which is the start of the next one (the loop breaks if that is
\* not above the cursor).
next_addr(idx) == idx + 1

\* OpenProcess / Handle::new, lines 288-303: on failure the producer returns,
\* which drops its sender.
ProducerOpen ==
    /\ prod.pc = "open"
    /\ \E o \in OpenResults :
          /\ ProdGoto(IF Opened(o) THEN "loop" ELSE "done", prod.idx)
          /\ hnd' = IF Opened(o) THEN [hnd EXCEPT !.prod = Handle_new(o)]
                     ELSE hnd
    /\ UNCHANGED << layout, is64, stop, success, failure, memQ, result, wk,
                    main, sendLog, readLog, validLog >>
    /\ UNCHANGED << fileVars, batchVars, restVars >>

\* One turn of the while loop up to the region filter, lines 314-341: the
\* stop flag is loaded, VirtualQueryEx is asked about the cursor (it returns 0
\* past the last region), and a region that fails the filter is stepped over.
ProducerQuery ==
    /\ prod.pc = "loop"
    /\ IF stop \/ prod.idx > Len(layout)
       THEN ProdGoto("done", prod.idx)
       ELSE IF RegionEligible(layout[prod.idx])
            THEN ProdGoto("preRead", prod.idx)
            ELSE ProdGoto("loop", next_addr(prod.idx))
    /\ UNCHANGED << layout, is64, stop, success, failure, memQ, result, wk,
                    main, sendLog, readLog, validLog >>
    /\ HandleTrack
    /\ UNCHANGED << fileVars, batchVars, restVars >>

\* Lines 343-360: the flag is loaded again and the whole region is read.
ProducerRead ==
    /\ prod.pc = "preRead"
    /\ IF stop
       THEN ProdGoto("done", prod.idx)
       ELSE IF layout[prod.idx].readOk
            THEN ProdGoto("postRead", prod.idx)
            ELSE ProdGoto("loop", next_addr(prod.idx))
    /\ UNCHANGED << layout, is64, stop, success, failure, memQ, result, wk,
                    main, sendLog, readLog, validLog >>
    /\ HandleTrack
    /\ UNCHANGED << fileVars, batchVars, restVars >>

\* A producer that sends what it has read without loading the flag.
ProducerCheckSend_nocheck ==
    /\ prod.pc = "postRead"
    /\ ProdGoto("send", prod.idx)
    /\ UNCHANGED << layout, is64, stop, success, failure, memQ, result, wk,
                    main, sendLog, readLog, validLog >>
    /\ HandleTrack
    /\ UNCHANGED << fileVars, batchVars, restVars >>

\* Lines 363-365: the flag is loaded a third time, after the read.
ProducerCheckSend ==
    /\ prod.pc = "postRead"
    /\ ProdGoto(IF stop THEN "done" ELSE "send", prod.idx)
    /\ UNCHANGED << layout, is64, stop, success, failure, memQ, result, wk,
                    main, sendLog, readLog, validLog >>
    /\ HandleTrack
    /\ UNCHANGED << fileVars, batchVars, restVars >>

\* Lines 367-384: the buffer is sent and the cursor moves on.  The channel
\* is unbounded (line 69) and _extract_key_impl keeps mem_receiver alive
\* until it returns, so the send neither blocks nor fails.
ProducerSend ==
    /\ prod.pc = "send"
    /\ memQ' = Append(memQ, prod.idx)
    /\ ProdGoto("loop", next_addr(prod.idx))
    /\ UNCHANGED << layout, is64, stop, success, failure, result, wk,
                    main, sendLog, readLog, validLog >>
    /\ HandleTrack
    /\ UNCHANGED << fileVars, batchVars, restVars >>

-----------------------------------------------------------------------------
(* The workers: worker_impl.                                                *)

Buf(w) == layout[wk[w].buf]

\* bytes_read of a region read that succeeded: the whole region.
BufLen(w) == Buf(w).size

\* A scan that never loads the stop flag between two matches.
StretchHasCheck_never(lo, hi) == FALSE

\* Whether some window index in lo..hi is a multiple of STOP_CHECK_EVERY, that
\* is, whether the scan loads the stop flag while it crosses lo..hi.
StretchHasCheck(lo, hi) ==
    hi >= lo /\ (hi \div STOP_CHECK_EVERY) * STOP_CHECK_EVERY >= lo

\* Where the scan of w's buffer goes next, when the windows below index a
\* remain and the next sentinel match below a is the k-th of the buffer: to
\* the stop-flag loads on the way there ("run"), to the match itself ("hit"),
\* or, the buffer exhausted, back to receiver.recv().
ScanFrom(w, a, k) ==
    LET hits == Buf(w).hits
        lo   == IF k <= Len(hits) THEN hits[k].pos + 1 ELSE 0
    IN  IF StretchHasCheck(lo, a - 1)
        THEN [wk[w] EXCEPT !.pc = "run", !.k = k]
        ELSE IF k <= Len(hits)
             THEN [wk[w] EXCEPT !.pc = "hit", !.k = k]
             ELSE [wk[w] EXCEPT !.pc = "recv", !.buf = 0, !.k = 0]

\* The scan resumes below the match it has just dealt with.
ScanOn(w) == ScanFrom(w, Buf(w).hits[wk[w].k].pos, wk[w].k + 1)

\* i.saturating_sub(ptr_size), line 190.
ptr_start_index(i) == IF i >= PTR_SIZE THEN i - PTR_SIZE ELSE 0

WorkerDone(w) == [wk[w] EXCEPT !.pc = "done"]

\* The return of a worker that has just loaded the stop flag as true.
WorkerStopped(w) == [wk[w] EXCEPT !.pc = "done", !.saw = TRUE]

\* OpenProcess / Handle::new, lines 163-171: on failure the worker returns.
WorkerOpen(w) ==
    /\ wk[w].pc = "open"
    /\ \E o \in OpenResults :
          /\ wk' = [wk EXCEPT ![w].pc = IF Opened(o) THEN "recv" ELSE "done"]
          /\ hnd' = IF Opened(o) THEN [hnd EXCEPT !.wk[w] = Handle_new(o)]
                     ELSE hnd
    /\ UNCHANGED << layout, is64, stop, success, failure, memQ, result, prod,
                    main, sendLog, readLog, validLog >>
    /\ UNCHANGED << fileVars, batchVars, restVars >>

\* receiver.recv(), line 175: the oldest buffer, or, when the channel is
\* empty and the producer has dropped its sender, the end of the loop.
WorkerRecv(w) ==
    /\ wk[w].pc = "recv"
    /\ \/ /\ memQ # << >>
          /\ wk' = [wk EXCEPT ![w].pc = "chkStop", ![w].buf = Head(memQ)]
          /\ memQ' = Tail(memQ)
       \/ /\ memQ = << >>
          /\ prod.pc = "done"
          /\ wk' = [wk EXCEPT ![w] = WorkerDone(w)]
          /\ UNCHANGED memQ
    /\ UNCHANGED << layout, is64, stop, success, failure, result, prod,
                    main, sendLog, readLog, validLog >>
    /\ HandleTrack
    /\ UNCHANGED << fileVars, batchVars, restVars >>

\* Line 177: the flag is loaded before the buffer is scanned.
WorkerCheckStop(w) ==
    /\ wk[w].pc = "chkStop"
    /\ wk' = [wk EXCEPT ![w] =
                IF stop
                THEN [wk[w] EXCEPT !.pc = "drain", !.saw = TRUE]
                ELSE ScanFrom(w, BufLen(w) - PATTERN_LEN + 1, 1)]
    /\ UNCHANGED << layout, is64, stop, success, failure, memQ, result, prod,
                    main, sendLog, readLog, validLog >>
    /\ HandleTrack
    /\ UNCHANGED << fileVars, batchVars, restVars >>

\* Line 185 at the windows between two matches: the flag is loaded at every
\* multiple of 100; the loads that see it clear change nothing.
WorkerRun(w) ==
    /\ wk[w].pc = "run"
    /\ wk' = [wk EXCEPT ![w] =
                IF stop
                THEN WorkerStopped(w)
                ELSE IF wk[w].k <= Len(Buf(w).hits)
                     THEN [wk[w] EXCEPT !.pc = "hit"]
                     ELSE [wk[w] EXCEPT !.pc = "recv", !.buf = 0, !.k = 0]]
    /\ UNCHANGED << layout, is64, stop, success, failure, memQ, result, prod,
                    main, sendLog, readLog, validLog >>
    /\ HandleTrack
    /\ UNCHANGED << fileVars, batchVars, restVars >>

\* Lines 185-194 at a window that equals the sentinel: the flag is loaded if
\* the index is a multiple of 100, the bytes in front of the match are taken
\* as the pointer (try_into().unwrap() panics unless there are 8 of them) and
\* the pointer is range-tested.
WorkerHit(w) ==
    /\ wk[w].pc = "hit"
    /\ LET h == Buf(w).hits[wk[w].k]
           i == h.pos
       IN  wk' = [wk EXCEPT ![w] =
                IF i % STOP_CHECK_EVERY = 0 /\ stop
                THEN WorkerStopped(w)
                ELSE IF ~(ptr_start_index(i) < i)
                     THEN ScanOn(w)
                     ELSE IF i - ptr_start_index(i) # PTR_SIZE
                          THEN [wk[w] EXCEPT !.pc = "panicked"]
                          ELSE IF WorkerPtrGate(h.ptr, is64)
                               THEN [wk[w] EXCEPT !.pc = "preValidate"]
                               ELSE ScanOn(w)]
    /\ UNCHANGED << layout, is64, stop, success, failure, memQ, result, prod,
                    main, sendLog, readLog, validLog >>
    /\ HandleTrack
    /\ UNCHANGED << fileVars, batchVars, restVars >>

\* Lines 196-213 and 262-273: the flag is loaded once more, then 32 bytes are
\* read at the pointer; a failed read counts as a failure.
WorkerReadKey(w) ==
    /\ wk[w].pc = "preValidate"
    /\ LET h == Buf(w).hits[wk[w].k]
       IN  IF stop
           THEN /\ wk' = [wk EXCEPT ![w] = WorkerStopped(w)]
                /\ UNCHANGED << failure, readLog >>
           ELSE /\ readLog' = readLog \cup {h.ptr}
                /\ IF h.mem = "unreadable"
                   THEN /\ failure' = failure + 1
                        /\ wk' = [wk EXCEPT ![w] = ScanOn(w)]
                   ELSE /\ wk' = [wk EXCEPT ![w].pc = "validate"]
                        /\ UNCHANGED failure
    /\ UNCHANGED << layout, is64, stop, success, memQ, result, prod,
                    main, sendLog, validLog >>
    /\ HandleTrack
    /\ UNCHANGED << fileVars, batchVars, restVars >>

\* validate_key_impl, lines 389-413, and the None arm, lines 248-260: None
\* when the flag is set or the bytes are not TARGET_KEY.
WorkerValidate(w) ==
    /\ wk[w].pc = "validate"
    /\ LET h == Buf(w).hits[wk[w].k]
       IN  /\ validLog' = validLog \cup {h.ptr}
           /\ IF ~stop /\ h.mem = "target"
              THEN /\ wk' = [wk EXCEPT ![w].pc = "count"]
                   /\ UNCHANGED failure
              ELSE /\ failure' = failure + 1
                   /\ wk' = [wk EXCEPT ![w] =
                                [ScanOn(w) EXCEPT !.saw = @ \/ stop]]
    /\ UNCHANGED << layout, is64, stop, success, memQ, result, prod,
                    main, sendLog, readLog >>
    /\ HandleTrack
    /\ UNCHANGED << fileVars, batchVars, restVars >>

\* A worker that goes on to publish whatever the counter said before.
FirstSuccess_any(order) == TRUE

\* Lines 221-227: only validation_order = 0 goes on.
FirstSuccess(order) == ~(order > 0)

\* success_counter.fetch_add(1), lines 221-227.
WorkerCount(w) ==
    /\ wk[w].pc = "count"
    /\ success' = success + 1
    /\ wk' = [wk EXCEPT ![w] =
                IF FirstSuccess(success)
                THEN [wk[w] EXCEPT !.pc = "setStop", !.order = success]
                ELSE [wk[w] EXCEPT !.pc = "done", !.order = success]]
    /\ UNCHANGED << layout, is64, stop, failure, memQ, result, prod,
                    main, sendLog, readLog, validLog >>
    /\ HandleTrack
    /\ UNCHANGED << fileVars, batchVars, restVars >>

\* stop_signal.store(true), line 241.
WorkerSetStop(w) ==
    /\ wk[w].pc = "setStop"
    /\ stop' = TRUE
    /\ wk' = [wk EXCEPT ![w].pc = "send", ![w].saw = TRUE]
    /\ UNCHANGED << layout, is64, success, failure, memQ, result, prod,
                    main, sendLog, readLog, validLog >>
    /\ HandleTrack
    /\ UNCHANGED << fileVars, batchVars, restVars >>

\* sender.try_send(key), line 242: refused when the channel is full.
WorkerSend(w) ==
    /\ wk[w].pc = "send"
    /\ LET ok == Len(result) < RESULT_CAP
       IN  /\ result' = IF ok THEN Append(result, w) ELSE result
           /\ sendLog' = sendLog \cup
                          {[w |-> w, order |-> wk[w].order, ok |-> ok]}
    /\ wk' = [wk EXCEPT ![w].pc = "drain"]
    /\ UNCHANGED << layout, is64, stop, success, failure, memQ, prod,
                    main, readLog, validLog >>
    /\ HandleTrack
    /\ UNCHANGED << fileVars, batchVars, restVars >>

\* while receiver.try_recv().is_ok() {}, lines 179 and 245, then the return.
WorkerDrain(w) ==
    /\ wk[w].pc = "drain"
    /\ IF memQ # << >>
       THEN memQ' = Tail(memQ) /\ UNCHANGED wk
       ELSE wk' = [wk EXCEPT ![w] = WorkerDone(w)] /\ UNCHANGED memQ
    /\ UNCHANGED << layout, is64, stop, success, failure, result, prod,
                    main, sendLog, readLog, validLog >>
    /\ HandleTrack
    /\ UNCHANGED << fileVars, batchVars, restVars >>

-----------------------------------------------------------------------------
(* _extract_key_impl after the spawns, lines 127-146.                       *)

\* producer_handle.join()
MainJoinProducer ==
    /\ main.pc = "joinProducer"
    /\ prod.pc = "done"
    /\ main' = [main EXCEPT !.pc = "joinWorkers"]
    /\ UNCHANGED << layout, is64, stop, success, failure, memQ, result, prod,
                    wk, sendLog, readLog, validLog >>
    /\ HandleTrack
    /\ UNCHANGED << fileVars, batchVars, restVars >>

\* handle.join().expect("Worker thread panicked"), in spawn order: the join
\* of a worker that panicked makes _extract_key_impl panic in its turn.
MainJoinWorker ==
    /\ main.pc = "joinWorkers"
    /\ wk[main.jw].pc \in {"done", "panicked"}
    /\ main' = IF wk[main.jw].pc = "panicked"
               THEN [main EXCEPT !.pc = "ended", !.res = "panic"]
               ELSE IF main.jw = NumWorkers
                    THEN [main EXCEPT !.pc = "tryRecv"]
                    ELSE [main EXCEPT !.jw = main.jw + 1]
    /\ UNCHANGED << layout, is64, stop, success, failure, memQ, result, prod,
                    wk, sendLog, readLog, validLog >>
    /\ HandleTrack
    /\ UNCHANGED << fileVars, batchVars, restVars >>

\* result_receiver.try_recv(), lines 137-145.
MainTryRecv ==
    /\ main.pc = "tryRecv"
    /\ IF result # << >>
       THEN /\ main' = [main EXCEPT !.pc = "ended", !.res = "key"]
            /\ result' = Tail(result)
       ELSE /\ main' = [main EXCEPT !.pc = "ended",
                                    !.res = "KeyExtractionFailed"]
            /\ UNCHANGED result
    /\ UNCHANGED << layout, is64, stop, success, failure, memQ, prod,
                    wk, sendLog, readLog, validLog >>
    /\ HandleTrack
    /\ UNCHANGED << fileVars, batchVars, restVars >>

WorkerStep(w) ==
    \/ WorkerOpen(w)
    \/ WorkerRecv(w)
    \/ WorkerCheckStop(w)
    \/ WorkerRun(w)
    \/ WorkerHit(w)
    \/ WorkerReadKey(w)
    \/ WorkerValidate(w)
    \/ WorkerCount(w)
    \/ WorkerSetStop(w)
    \/ WorkerSend(w)
    \/ WorkerDrain(w)

NextScan ==
    \/ ProducerOpen
    \/ ProducerQuery
    \/ ProducerRead
    \/ ProducerCheckSend
    \/ ProducerSend
    \/ \E w \in Workers : WorkerStep(w)
    \/ MainJoinProducer
    \/ MainJoinWorker
    \/ MainTryRecv

vars == << scanVars, fileVars, batchVars, restVars >>

SpecScan == InitScan /\ [][NextScan]_vars

-----------------------------------------------------------------------------
(* Properties of the scanner.                                               *)

WorkerEnded(w) == wk[w].pc \in {"done", "panicked"}

\* The workers whose validator accepted a candidate and who have counted it.
Accepted == {w \in Workers : wk[w].order >= 0}

\* C1: in one key scan only the worker whose fetch_add moved success_counter
\* from 0 to 1 sends on the result channel, and its send is accepted; every
\* other accepting worker returns without sending; so the channel carries at
\* most one key, and exactly one once the workers of a scan with a success
\* have ended.
C1_FirstWinsOnly ==
    /\ \A s \in sendLog : s.order = 0 /\ s.ok /\ wk[s.w].order = 0
    /\ Cardinality(sendLog) <= 1
    /\ Len(result) <= 1
    /\ \A w \in Accepted :
          wk[w].order > 0 => wk[w].pc = "done" /\ \A s \in sendLog : s.w # w
    /\ ((\A w \in Workers : WorkerEnded(w)) /\ success >= 1)
          => Cardinality(sendLog) = 1

\* Two workers accepted a candidate each, all workers have ended, and one key
\* was sent.
C1_Witness ==
    /\ main.pc # "idle"
    /\ Cardinality(Accepted) >= 2
    /\ \A w \in Workers : WorkerEnded(w)
    /\ Cardinality(sendLog) = 1

\* C6: a worker reads 32 bytes at a pointer, and submits them to the
\* validator, only if the pointer lies strictly inside the user range of the
\* target's architecture.
C6_PointerInArchRange ==
    \A p \in readLog \cup validLog : is_valid_pointer(p, is64)

\* C7: the scan returns only after the producer and every worker have
\* finished; it returns the key iff a success was recorded, and fails with
\* KeyExtractionFailed iff none was.
C7_ScanOutcome ==
    main.pc = "ended" =>
        /\ prod.pc = "done"
        /\ \A w \in Workers : wk[w].pc = "done"
        /\ (main.res = "key") <=> (success >= 1)
        /\ (main.res = "KeyExtractionFailed") <=> (success = 0)

\* The scanner's threads, each with its handle.
HandleOf(pc, h) == [pc |-> pc, h |-> h]

ScanThreads ==
    {HandleOf(prod.pc, hnd.prod)} \cup
    {HandleOf(wk[w].pc, hnd.wk[w]) : w \in Workers}

\* C16: no Handle wraps the null handle or INVALID_HANDLE_VALUE, and the
\* handle a scanner thread (producer or worker) wrapped is closed exactly
\* once when the thread ends and not before, whichever way the thread ends.
C16_HandleClosedOnce ==
    \A t \in ScanThreads :
        /\ t.h.wrapped => ~is_invalid(t.h.raw)
        /\ (t.h.wrapped /\ t.pc \in ThreadEnd) => t.h.closes = 1
        /\ ~(t.h.wrapped /\ t.pc \in ThreadEnd) => t.h.closes = 0

\* The producer and the workers have ended, one worker after the first
\* success and one after a later success, and each closed its handle.
C16_Witness ==
    /\ prod.pc = "done" /\ hnd.prod.wrapped /\ hnd.prod.closes = 1
    /\ \E v, w \in Workers :
          /\ wk[v].pc = "done" /\ wk[v].order = 0
          /\ wk[w].pc = "done" /\ wk[w].order > 0
          /\ hnd.wk[v].closes = 1
          /\ hnd.wk[w].closes = 1

\* The window a worker is at while it deals with a sentinel match.
WindowOf(s) == layout[s.buf].hits[s.k].pos

\* No window index between j and i, both excluded, is a multiple of
\* STOP_CHECK_EVERY: a scan that goes from window i down to window j loads
\* the stop flag nowhere on the way.
NoCheckBetween(j, i) ==
    ((i - 1) \div STOP_CHECK_EVERY) * STOP_CHECK_EVERY <= j

\* C22: once the stop flag is set, a step of a worker
\*   - that has just received a buffer does not scan it (it drains the
\*     channel and returns);
\*   - that is about to load the flag (between two matches, at a match whose
\*     index is a multiple of 100, in front of a candidate's validation)
\*     returns;
\*   - that is in validate_key_impl does not accept the candidate;
\*   - and otherwise stays in its buffer without passing a window whose
\*     index is a multiple of 100.
\* The flag is loaded at every such window, so a worker examines at most 100
\* windows, and accepts no candidate, between the store of the flag and its
\* return.
C22_StopObserved ==
    [][\A w \in Workers :
          (stop /\ wk'[w] # wk[w]) =>
              LET a == wk[w]
                  b == wk'[w]
              IN  /\ a.pc = "chkStop" => b.pc = "drain"
                  /\ a.pc \in {"run", "preValidate"} => b.pc = "done"
                  /\ (a.pc = "hit" /\ WindowOf(a) % STOP_CHECK_EVERY = 0) =>
                        b.pc = "done"
                  /\ a.pc = "validate" => b.pc # "count"
                  /\ (a.pc \in {"hit", "validate"} /\ b.pc \notin ThreadEnd) =>
                        /\ b.buf = a.buf
                        /\ b.pc \in {"run", "hit", "preValidate"}
                        /\ b.pc # "run" =>
                              /\ NoCheckBetween(WindowOf(b), WindowOf(a))
                              /\ WindowOf(a) - WindowOf(b) <= STOP_CHECK_EVERY
      ]_vars

\* The flag is set; a worker has returned from the middle of a buffer on
\* seeing it, without having accepted a candidate.
C22_Witness ==
    /\ stop
    /\ \E w \in Workers :
          /\ wk[w].pc = "done"
          /\ wk[w].saw
          /\ wk[w].k >= 1
          /\ wk[w].order = -1
          /\ Len(layout[wk[w].buf].hits) >= 2

\* C23: once the stop flag is set, a step of the producer at one of its
\* three loads of the flag (top of the loop, in front of a region read, in
\* front of a send) makes it return without reading or sending; only a
\* producer that had passed the last load before the flag was set still
\* sends, and that send takes it back to the top of the loop, so at most one
\* buffer is sent after the flag is set.  The return drops the sender: a
\* worker that then finds the channel empty leaves its receive loop.
C23_ProducerStops ==
    [][/\ (stop /\ prod' # prod) =>
             /\ prod.pc \in {"loop", "preRead", "postRead"} =>
                   prod'.pc = "done" /\ memQ' = memQ
             /\ prod.pc = "send" => prod'.pc = "loop"
             /\ prod.pc \in {"loop", "preRead", "postRead", "send"}
       /\ (stop /\ Len(memQ') > Len(memQ)) => prod.pc = "send"
       /\ \A w \in Workers :
             (prod.pc = "done" /\ memQ = << >> /\ wk[w].pc = "recv"
                /\ wk'[w] # wk[w]) => wk'[w].pc = "done"
      ]_vars

\* The flag is set and the producer has returned in front of a region it
\* would otherwise have read and sent.
C23_Witness ==
    /\ stop
    /\ prod.pc = "done"
    /\ hnd.prod.wrapped
    /\ prod.idx = 2
    /\ prod.idx <= Len(layout)
    /\ RegionEligible(layout[prod.idx])
    /\ layout[prod.idx].readOk

\* C24 (as stated): once every worker has exited, a send of the producer
\* fails: the channel gets no further buffer and the producer returns
\* instead of going on to the next region.
C24_SendFailsWithoutWorkers ==
    [][(\A w \in Workers : WorkerEnded(w)) =>
          /\ memQ' = memQ
          /\ (prod.pc = "send" /\ prod' # prod) => prod'.pc = "done"
      ]_vars

\* Where C24 fails: no worker could open the process, the flag was never
\* set, and the producer has read and queued two regions for nobody.
C24_QueuedForNobody ==
    /\ \A w \in Workers : wk[w].pc = "done" /\ ~hnd.wk[w].wrapped
    /\ ~stop
    /\ prod.pc = "done"
    /\ Len(memQ) = 2

\* The producer and every worker have returned (none panicked) and a key was
\* sent on the result channel.
ScanSucceeded ==
    /\ prod.pc = "done"
    /\ \A w \in Workers : wk[w].pc = "done"
    /\ sendLog # {}

\* C25 (as stated): when a successful scan has finished, the result channel
\* has carried exactly one key, every worker had seen the stop flag set
\* before it returned, and no buffer is left in the region-buffer channel.
C25_AllDrained ==
    ScanSucceeded =>
        /\ Cardinality(sendLog) = 1
        /\ \A s \in sendLog : s.ok
        /\ \A w \in Workers : wk[w].saw
        /\ memQ = << >>

\* Where C25 fails: the scan has succeeded, the worker that found the key
\* has drained the channel and returned, and a buffer the producer sent
\* after that is left in the channel.
C25_BufferLeft ==
    /\ ScanSucceeded
    /\ \E w \in Workers : wk[w].order = 0
    /\ \A w \in Workers : hnd.wk[w].wrapped /\ wk[w].saw
    /\ memQ # << >>

\* Where C25 fails as well: a worker returned without ever seeing the flag
\* set.
C25_WorkerNeverSaw ==
    /\ ScanSucceeded
    /\ memQ = << >>
    /\ \E w \in Workers : hnd.wk[w].wrapped /\ ~wk[w].saw

\* What does hold: exactly one key is carried.
ScanSucceededOneKey ==
    ScanSucceeded =>
        /\ Cardinality(sendLog) = 1
        /\ \A s \in sendLog : s.ok
        /\ stop

\* C27 (as stated): no sentinel match makes a worker panic or makes
\* _extract_key_impl end by a panic; a match with fewer than 8 bytes in
\* front of it is skipped.
C27_NoMatchPanics ==
    /\ \A w \in Workers : wk[w].pc # "panicked"
    /\ main.res # "panic"

\* Where C27 fails: a worker has panicked at a match at window 3, and the
\* scan has ended by the panic of the join.
C27_PanicAtShortPrefix ==
    /\ \E w \in Workers :
          /\ wk[w].pc = "panicked"
          /\ WindowOf(wk[w]) = 3
    /\ main.pc = "ended"
    /\ main.res = "panic"

\* What does hold: a worker panics only at a match at window 1 to 7.
PanicOnlyAtShortPrefix ==
    \A w \in Workers :
        wk[w].pc = "panicked" => WindowOf(wk[w]) \in 1 .. PTR_SIZE - 1

\* The depth the region-buffer channel is checked against.  Line 69 creates
\* the channel with crossbeam_channel::unbounded(), so the code configures
\* none; any depth below the number of eligible regions of a layout shows
\* the same.
MemChannelDepth == 2

\* C28 (as stated): the region buffers sent and not yet received never
\* exceed the channel's depth (the producer waits while the channel is
\* full).
C28_ChannelBounded == Len(memQ) <= MemChannelDepth

\* Where C28 fails: three region buffers are queued before any worker has
\* even opened the process; the producer has waited for nobody.
C28_ThreeQueued ==
    /\ Len(memQ) = 3
    /\ \A w \in Workers : wk[w].pc = "open"
    /\ prod.pc = "done"

\* The filter C29 states: committed, private, read/write, and at least
\* 1 MiB, the bound included.
AtLeastOneMiB(r) ==
    /\ r.state = "commit"
    /\ r.rw
    /\ r.type = "private"
    /\ r.size >= REGION_MIN_SIZE

\* The producer decides about the region under its cursor.
ProducerFilters ==
    /\ prod.pc = "loop"
    /\ prod' # prod
    /\ ~stop
    /\ prod.idx <= Len(layout)

\* C29 (as stated): the producer goes on to read (and then send) the region
\* under its cursor if and only if the region is committed, private,
\* read/write and of at least 1,048,576 bytes; any other region is stepped
\* over unread.
C29_FilterInclusive ==
    [][ProducerFilters =>
          IF AtLeastOneMiB(layout[prod.idx])
          THEN prod'.pc = "preRead" /\ prod'.idx = prod.idx
          ELSE prod'.pc = "loop" /\ prod'.idx = prod.idx + 1
      ]_vars

\* Where C29 fails: the producer has walked the whole layout, whose first
\* region is committed, private, read/write, readable and of exactly 1 MiB,
\* and no buffer was ever sent.
C29_ExactMiBSkipped ==
    /\ layout # << >>
    /\ AtLeastOneMiB(layout[1])
    /\ layout[1].size = REGION_MIN_SIZE
    /\ layout[1].readOk
    /\ prod.pc = "done"
    /\ ~stop
    /\ prod.idx > Len(layout)
    /\ memQ = << >>
    /\ \A w \in Workers : wk[w].pc = "open"

\* What does hold: the same with the code's filter, which wants more than
\* 1 MiB.
FilterIsStrict ==
    [][ProducerFilters =>
          IF RegionEligible(layout[prod.idx])
          THEN prod'.pc = "preRead" /\ prod'.idx = prod.idx
          ELSE prod'.pc = "loop" /\ prod'.idx = prod.idx + 1
      ]_vars

-----------------------------------------------------------------------------
(* Termination of the scan.  The producer, the workers and
   _extract_key_impl are operating-system threads: a thread that can take a
   step (its OS call returns, the channel it waits on has a buffer or is
   closed, the thread it joins has ended) eventually takes it.              *)

ProducerStep ==
    \/ ProducerOpen
    \/ ProducerQuery
    \/ ProducerRead
    \/ ProducerCheckSend
    \/ ProducerSend

MainStep ==
    \/ MainJoinProducer
    \/ MainJoinWorker
    \/ MainTryRecv

SpecScanFair ==
    /\ SpecScan
    /\ WF_vars(ProducerStep)
    /\ \A w \in Workers : WF_vars(WorkerStep(w))
    /\ WF_vars(MainStep)

\* The scan is over: the producer and every worker have ended and
\* _extract_key_impl has ended (with the key, with KeyExtractionFailed, or
\* by the panic it takes over from a worker).
ScanOver ==
    /\ prod.pc = "done"
    /\ \A w \in Workers : WorkerEnded(w)
    /\ main.pc = "ended"

-----------------------------------------------------------------------------
(* The per-file decryption engine (decrypt_common.rs, decrypt_algorithm_v4.rs,
   parallel_decrypt.rs) and its callers (decrypt_files.rs).

   A page of the input is [len, body, mac]: len bytes were read for it; body
   is "zero" when every byte of the page is 0 and "data" otherwise; mac names
   the key whose derived MAC key matches the HMAC stored in the page's
   reserve ("none": no key of the model matches).  The pages of a file are the
   PAGE_SIZE chunks of its bytes, so only the last one can be short.         *)

PAGE_SIZE == 4096
RESERVE_SIZE == 80
HMAC_SIZE == 64
AES_BLOCK_SIZE == 16
SALT_SIZE == 16
IV_SIZE == 16
KEY_SIZE == 32
SQLITE_HEADER_LEN == 16
MIN_FILE_SIZE == 1024
PLACEHOLDER_SIZE == 4096

Key(id, len) == [id |-> id, len |-> len]
KeyA == Key("A", KEY_SIZE)
KeyB == Key("B", KEY_SIZE)
KeyShort == Key("A", KEY_SIZE - 1)
Keys == {KeyA, KeyB, KeyShort}

Page(len, body, mac) == [len |-> len, body |-> body, mac |-> mac]
FullA == Page(PAGE_SIZE, "data", "A")
FullB == Page(PAGE_SIZE, "data", "B")
FullBad == Page(PAGE_SIZE, "data", "none")
FullZero == Page(PAGE_SIZE, "zero", "none")
LastPage(len) == Page(len, "data", "none")
LastZero(len) == Page(len, "zero", "none")

DbFile(sqlite, pages) == [sqlite |-> sqlite, pages |-> pages]

\* The input files of the model.  A file that starts with the SQLite header
\* has sqlite = TRUE; its first page is then neither all zero nor shorter
\* than the header.
Files ==
    { DbFile(FALSE, << FullA, FullA, FullA >>),
      DbFile(FALSE, << FullA, FullZero, FullBad, LastPage(100) >>),
      DbFile(FALSE, << FullA, FullB, FullA, LastZero(4095) >>),
      DbFile(FALSE, << FullB, FullA >>),
      DbFile(FALSE, << FullA >>),
      DbFile(FALSE, << FullBad, FullA >>),
      DbFile(FALSE, << FullZero, FullA >>),
      DbFile(FALSE, << LastPage(2000) >>),
      DbFile(FALSE, << LastPage(8) >>),
      DbFile(FALSE, << >>),
      DbFile(TRUE, << FullBad, FullA, LastPage(100) >>),
      DbFile(TRUE, << FullA, FullA >>),
      DbFile(TRUE, << LastPage(SQLITE_HEADER_LEN) >>) }

RECURSIVE SumLen(_)
SumLen(pages) ==
    IF pages = << >> THEN 0 ELSE Head(pages).len + SumLen(Tail(pages))

\* file.metadata().len()
file_size(f) == SumLen(f.pages)

\* total_pages = (file_size + page_size - 1) / page_size
total_pages(f) == (file_size(f) + PAGE_SIZE - 1) \div PAGE_SIZE

\* read_db_info: the first min(page_size, file_size) bytes; an empty file
\* gives an empty first page.
first_page(f) ==
    IF f.pages = << >> THEN Page(0, "zero", "none") ELSE f.pages[1]

Min(a, b) == IF a < b THEN a ELSE b

\* The check for the SQLite header left out: every file counts as encrypted.
is_database_encrypted_always(f) == TRUE

\* is_database_encrypted: the first page does not start with SQLITE_HEADER.
is_database_encrypted(f) == ~f.sqlite

\* derive_keys_v4 fails unless the key has KEY_SIZE bytes (the salt passed to
\* it always has SALT_SIZE bytes).  The derived MAC key is a function of the
\* key and the salt, so it is named by the key's id.
derive_keys_v4_ok(k) == k.len = KEY_SIZE

\* verify_hmac_sha512: "true" / "false", or the error it returns.
verify_hmac_sha512(page, k, page_num) ==
    LET offset == IF page_num = 0 THEN SALT_SIZE ELSE 0
        data_end == PAGE_SIZE - RESERVE_SIZE + IV_SIZE
        actual_end == Min(data_end, page.len)
        hmac_end == actual_end + HMAC_SIZE
    IN  IF offset >= page.len THEN "PageTooSmall"
        ELSE IF offset >= actual_end THEN "RangeInvalid"
        ELSE IF hmac_end > page.len THEN "PageIncomplete"
        ELSE IF page.mac = k.id THEN "true" ELSE "false"

\* decrypt_page that leaves the reserve out of the page it returns.
decrypt_page_noreserve(page, k, page_num) ==
    IF verify_hmac_sha512(page, k, page_num) # "true"
    THEN [ok |-> FALSE, len |-> 0]
    ELSE [ok |-> TRUE, len |-> PAGE_SIZE - RESERVE_SIZE]

\* decrypt_page: [ok, len], len the number of bytes of the decrypted page.
decrypt_page(page, k, page_num) ==
    LET iv_start == PAGE_SIZE - RESERVE_SIZE
        offset == IF page_num = 0 THEN SALT_SIZE ELSE 0
        remainder == (iv_start - offset) % AES_BLOCK_SIZE
        padded == IF remainder # 0
                  THEN (iv_start - offset) + (AES_BLOCK_SIZE - remainder)
                  ELSE iv_start - offset
    IN  IF verify_hmac_sha512(page, k, page_num) # "true"
        THEN [ok |-> FALSE, len |-> 0]
        ELSE IF iv_start + IV_SIZE > page.len \/ offset >= page.len
                \/ offset >= iv_start
        THEN [ok |-> FALSE, len |-> 0]
        ELSE [ok |-> TRUE, len |-> padded + (page.len - iv_start)]

\* What is written to an output file: the SQLite header, a decrypted page
\* ("plain"), the bytes of an input page as they were read ("raw") or the
\* write task's placeholder of zero bytes.
Chunk(form, page_num, len) == [form |-> form, page |-> page_num, len |-> len]
HeaderChunk == Chunk("header", -1, SQLITE_HEADER_LEN)

\* Steps 2 to 5 of decrypt_database_sequential: "ok" or the error returned.
SeqPrepare(f, k) ==
    IF ~is_database_encrypted(f) THEN "AlreadyDecrypted"
    ELSE IF first_page(f).len < SALT_SIZE THEN "FirstPageIncomplete"
    ELSE IF ~derive_keys_v4_ok(k) THEN "KeyLength"
    ELSE LET v == verify_hmac_sha512(first_page(f), k, 0)
         IN  IF v = "true" THEN "ok"
             ELSE IF v = "false" THEN "KeyVerifyFailed"
             ELSE v

\* The body of the page loop of decrypt_database_sequential: the chunk it
\* writes for page page_num.
SeqProcessPage(page, k, page_num) ==
    IF page.body = "zero" THEN Chunk("raw", page_num, page.len)
    ELSE LET d == decrypt_page(page, k, page_num)
         IN  IF d.ok THEN Chunk("plain", page_num, d.len)
             ELSE Chunk("raw", page_num, page.len)

\* prepare_keys without its page-0 HMAC check.
prepare_keys_unverified(f, k) ==
    IF ~is_database_encrypted(f) THEN "AlreadyDecrypted"
    ELSE IF first_page(f).len < SALT_SIZE THEN "FirstPageIncomplete"
    ELSE IF ~derive_keys_v4_ok(k) THEN "KeyLength"
    ELSE "ok"

\* ParallelDecryptor::prepare_keys: "ok" or the error returned.
prepare_keys(f, k) ==
    IF ~is_database_encrypted(f) THEN "AlreadyDecrypted"
    ELSE IF first_page(f).len < SALT_SIZE THEN "FirstPageIncomplete"
    ELSE IF ~derive_keys_v4_ok(k) THEN "KeyLength"
    ELSE LET v == verify_hmac_sha512(first_page(f), k, 0)
         IN  IF v = "true" THEN "ok"
             ELSE IF v = "false" THEN "KeyVerifyFailed"
             ELSE v

\* ProcessedPage: [page, ok, chunk]; ok = FALSE is ProcessedPage::error.
ProcessedPage(page_num, ok, chunk) ==
    [page |-> page_num, ok |-> ok, chunk |-> chunk]

\* process_page_async handing an all-zero page to decrypt_page like any
\* other and reporting what decrypt_page rejects as an error page.
process_page_async_nozero(page, k, page_num) ==
    LET d == decrypt_page(page, k, page_num)
    IN  IF d.ok
        THEN ProcessedPage(page_num, TRUE, Chunk("plain", page_num, d.len))
        ELSE IF page.body = "zero"
        THEN ProcessedPage(page_num, FALSE, Chunk("raw", page_num, page.len))
        ELSE ProcessedPage(page_num, TRUE, Chunk("raw", page_num, page.len))

\* process_page_async reporting a page decrypt_page rejects as an error page.
process_page_async_strict(page, k, page_num) ==
    IF page.body = "zero"
    THEN ProcessedPage(page_num, TRUE, Chunk("raw", page_num, page.len))
    ELSE LET d == decrypt_page(page, k, page_num)
         IN  IF d.ok
             THEN ProcessedPage(page_num, TRUE, Chunk("plain", page_num, d.len))
             ELSE ProcessedPage(page_num, FALSE, HeaderChunk)

\* process_page_async, the spawn_blocking task running to completion: an
\* all-zero page and a page decrypt_page rejects both come back as they were
\* read.
process_page_async(page, k, page_num) ==
    IF page.body = "zero"
    THEN ProcessedPage(page_num, TRUE, Chunk("raw", page_num, page.len))
    ELSE LET d == decrypt_page(page, k, page_num)
         IN  IF d.ok
             THEN ProcessedPage(page_num, TRUE, Chunk("plain", page_num, d.len))
             ELSE ProcessedPage(page_num, TRUE, Chunk("raw", page_num, page.len))

\* process_page_async, lines 442-461: the outcome of the spawn_blocking
\* task.  A JoinError is returned as Err, and the process task then sends
\* ProcessedPage::error(page_num, ..) (lines 403-408); an all-zero page has
\* returned before the task is spawned.
ErrorPage(page_num) == ProcessedPage(page_num, FALSE, Chunk("none", page_num, 0))

process_page(page, k, page_num, join_fail) ==
    IF join_fail = page_num /\ page.body # "zero"
    THEN ErrorPage(page_num)
    ELSE process_page_async(page, k, page_num)

\* A write task that writes the header again in front of page 1.
WrittenChunk_header(pp) ==
    IF pp.page = 1 THEN HeaderChunk ELSE pp.chunk

\* What the write task appends for a processed page.
WrittenChunk(pp) ==
    IF pp.ok THEN pp.chunk ELSE Chunk("placeholder", pp.page, PLACEHOLDER_SIZE)

\* V4Decryptor::validate_key
validate_key(f, k) ==
    IF ~is_database_encrypted(f) THEN FALSE
    ELSE IF first_page(f).len < SALT_SIZE THEN FALSE
    ELSE IF ~derive_keys_v4_ok(k) THEN FALSE
    ELSE verify_hmac_sha512(first_page(f), k, 0) = "true"

\* KeyValidator::validate_key_auto: "V4" or "None"
validate_key_auto(f, k) == IF validate_key(f, k) THEN "V4" ELSE "None"

\* determine_version: the version, or the error for None.
determine_version(f, k) ==
    IF validate_key_auto(f, k) = "V4" THEN "V4" ELSE "KeyVerifyFailed"

\* The environment: write_fail = n > 0 makes the n-th write_all on an output
\* file fail (the header is the first write, page p the write p + 2);
\* info_enabled says whether the tracing subscriber records INFO events;
\* join_fail = p >= 0 makes the spawn_blocking task of page p end with a
\* JoinError (it panicked or was cancelled), -1 lets every such task run to
\* completion.
MaxWriteFault == 3

WriteFails(out) == env.write_fail = Len(out.data) + 1

-----------------------------------------------------------------------------
(* decrypt_database_sequential                                              *)

SeqGoto(pc, res) == seq' = [seq EXCEPT !.pc = pc, !.res = res]

\* Steps 1 to 5: read_db_info, the checks, the key derivation and the page-0
\* HMAC check.
SeqCheckKey ==
    /\ seq.pc = "prepare"
    /\ LET r == SeqPrepare(file, key)
       IN  IF r = "ok" THEN SeqGoto("create", "none") ELSE SeqGoto("done", r)
    /\ UNCHANGED << file, key, call, seqOut, par, parOut, rd, pageQ, pw, resQ,
                    wr, reordered >>
    /\ UNCHANGED << env, scanVars, batchVars, restVars >>

\* Step 6: File::create(output_path)
SeqCreate ==
    /\ seq.pc = "create"
    /\ seqOut' = [created |-> TRUE, data |-> << >>]
    /\ SeqGoto("header", "none")
    /\ UNCHANGED << file, key, call, par, parOut, rd, pageQ, pw, resQ, wr,
                    reordered >>
    /\ UNCHANGED << env, scanVars, batchVars, restVars >>

\* Step 7: write_all(SQLITE_HEADER)
SeqHeader ==
    /\ seq.pc = "header"
    /\ IF WriteFails(seqOut)
       THEN SeqGoto("done", "WriteFailed") /\ UNCHANGED seqOut
       ELSE /\ seqOut' = [seqOut EXCEPT !.data = Append(@, HeaderChunk)]
            /\ seq' = [seq EXCEPT !.pc = "pages", !.page = 0]
    /\ UNCHANGED << file, key, call, par, parOut, rd, pageQ, pw, resQ, wr,
                    reordered >>
    /\ UNCHANGED << env, scanVars, batchVars, restVars >>

\* Step 8, one iteration of the page loop.
SeqPage ==
    /\ seq.pc = "pages"
    /\ seq.page < total_pages(file)
    /\ IF WriteFails(seqOut)
       THEN SeqGoto("done", "WriteFailed") /\ UNCHANGED seqOut
       ELSE /\ seqOut' = [seqOut EXCEPT !.data =
                    Append(@, SeqProcessPage(file.pages[seq.page + 1], key,
                                             seq.page))]
            /\ seq' = [seq EXCEPT !.page = @ + 1]
    /\ UNCHANGED << file, key, call, par, parOut, rd, pageQ, pw, resQ, wr,
                    reordered >>
    /\ UNCHANGED << env, scanVars, batchVars, restVars >>

\* The loop is over: Ok(()).
SeqFinish ==
    /\ seq.pc = "pages"
    /\ seq.page >= total_pages(file)
    /\ SeqGoto("done", "Ok")
    /\ UNCHANGED << file, key, call, seqOut, par, parOut, rd, pageQ, pw, resQ,
                    wr, reordered >>
    /\ UNCHANGED << env, scanVars, batchVars, restVars >>

-----------------------------------------------------------------------------
(* ParallelDecryptor::decrypt_database_parallel and its three stages.       *)

\* ParallelDecryptConfig::batch_size and ::concurrent_pages
BatchSize == 2
ConcurrentPages == 2

PageWorkers == 1 .. ConcurrentPages

\* mpsc::channel(batch_size * 2), both channels
ChannelCap == BatchSize * 2

NoProcessedPage == ProcessedPage(-1, TRUE, HeaderChunk)

ParGoto(pc, res) == par' = [pc |-> pc, res |-> res]

\* Steps 1 and 2: read_db_info and prepare_keys.
ParPrepare ==
    /\ par.pc = "prepare"
    /\ LET r == prepare_keys(file, key)
       IN  IF r = "ok" THEN ParGoto("create", "none") ELSE ParGoto("done", r)
    /\ UNCHANGED << file, key, call, seq, seqOut, parOut, rd, pageQ, pw, resQ,
                    wr, reordered >>
    /\ UNCHANGED << env, scanVars, batchVars, restVars >>

\* Step 3: File::create(output_path)
ParCreate ==
    /\ par.pc = "create"
    /\ parOut' = [created |-> TRUE, data |-> << >>]
    /\ ParGoto("header", "none")
    /\ UNCHANGED << file, key, call, seq, seqOut, rd, pageQ, pw, resQ, wr,
                    reordered >>
    /\ UNCHANGED << env, scanVars, batchVars, restVars >>

\* Steps 4 to 6: the header is written, the channels are created and the
\* three stages are spawned.
ParHeaderAndSpawn ==
    /\ par.pc = "header"
    /\ IF WriteFails(parOut)
       THEN /\ ParGoto("done", "WriteFailed")
            /\ UNCHANGED << parOut, rd, pw, wr >>
       ELSE /\ parOut' = [parOut EXCEPT !.data = Append(@, HeaderChunk)]
            /\ rd' = [pc |-> "read", page |-> 0, batch |-> << >>,
                      res |-> "none"]
            /\ pw' = [w \in PageWorkers |->
                         [pc |-> "recv", out |-> NoProcessedPage]]
            /\ wr' = [pc |-> "recv", pending |-> {}, next |-> 0,
                      res |-> "none"]
            /\ ParGoto("running", "none")
    /\ UNCHANGED << file, key, call, seq, seqOut, pageQ, resQ, reordered >>
    /\ UNCHANGED << env, scanVars, batchVars, restVars >>

\* Line 306: the gauge the read task polls before each read,
\* memory_monitor.load(Relaxed) > 800 * 1024 * 1024; it sleeps 10 ms and
\* polls again while this holds.
READ_GATE_MB == 800

read_gate_closed(m) == m.usage > READ_GATE_MB * MIB

\* A read task that sends a batch only when it is full.
batch_ready_fullonly(b, page_num, total) == Len(b) >= BatchSize

\* Line 339: current_batch.len() >= batch_size || page_num == total_pages - 1
batch_ready(b, page_num, total) ==
    Len(b) >= BatchSize \/ page_num = total - 1

\* Stage A, spawn_read_task: once the gauge lets it through, one page is
\* read and pushed on current_batch; the batch is flushed when it is full or
\* the page is the last one.
ReaderRead ==
    /\ rd.pc = "read"
    /\ rd.page < total_pages(file)
    /\ ~read_gate_closed(mon)
    /\ LET page_task == [page |-> rd.page, data |-> file.pages[rd.page + 1]]
           b == Append(rd.batch, page_task)
       IN  rd' = IF batch_ready(b, rd.page, total_pages(file))
                 THEN [rd EXCEPT !.pc = "send", !.batch = b]
                 ELSE [rd EXCEPT !.page = @ + 1, !.batch = b]
    /\ UNCHANGED << file, key, call, seq, seqOut, par, parOut, pageQ, pw,
                    resQ, wr, reordered >>
    /\ UNCHANGED << env, scanVars, batchVars, restVars >>

\* sender.send(task).await for the next task of the drained batch; it waits
\* while the channel is full, and fails when every process task has ended
\* and so dropped the receiver.
ReaderSend ==
    /\ rd.pc = "send"
    /\ IF \A w \in PageWorkers : pw[w].pc = "done"
       THEN /\ rd' = [rd EXCEPT !.pc = "done", !.res = "SendFailed"]
            /\ UNCHANGED pageQ
       ELSE /\ Len(pageQ) < ChannelCap
            /\ pageQ' = Append(pageQ, Head(rd.batch))
            /\ rd' = IF Len(rd.batch) = 1
                     THEN [rd EXCEPT !.pc = "read", !.page = @ + 1,
                                     !.batch = << >>]
                     ELSE [rd EXCEPT !.batch = Tail(@)]
    /\ UNCHANGED << file, key, call, seq, seqOut, par, parOut, pw, resQ, wr,
                    reordered >>
    /\ UNCHANGED << env, scanVars, batchVars, restVars >>

\* The loop is over: the task returns and its sender is dropped.
ReaderFinish ==
    /\ rd.pc = "read"
    /\ rd.page >= total_pages(file)
    /\ rd' = [rd EXCEPT !.pc = "done", !.res = "Ok"]
    /\ UNCHANGED << file, key, call, seq, seqOut, par, parOut, pageQ, pw,
                    resQ, wr, reordered >>
    /\ UNCHANGED << env, scanVars, batchVars, restVars >>

\* Stage B, a process task: rx.recv() gives a page task, the permit is taken
\* (there are as many permits as tasks) and process_page_async runs.
PWRecv(w) ==
    /\ w \in DOMAIN pw
    /\ pw[w].pc = "recv"
    /\ pageQ # << >>
    /\ pageQ' = Tail(pageQ)
    /\ pw' = [pw EXCEPT ![w] =
                [pc |-> "send",
                 out |-> process_page(Head(pageQ).data, key,
                                      Head(pageQ).page, env.join_fail)]]
    /\ UNCHANGED << file, key, call, seq, seqOut, par, parOut, rd, resQ, wr,
                    reordered >>
    /\ UNCHANGED << env, scanVars, batchVars, restVars >>

\* sender.send(processed_page).await?: it fails, and ends the task, when the
\* write task has ended and so dropped the receiver; the failed send of an
\* error page is ignored (send(error_page).await.ok()).
PWSend(w) ==
    /\ w \in DOMAIN pw
    /\ pw[w].pc = "send"
    /\ IF wr.pc = "done"
       THEN /\ pw' = [pw EXCEPT ![w] =
                        [pc |-> IF pw[w].out.ok THEN "done" ELSE "recv",
                         out |-> NoProcessedPage]]
            /\ UNCHANGED resQ
       ELSE /\ Len(resQ) < ChannelCap
            /\ resQ' = Append(resQ, pw[w].out)
            /\ pw' = [pw EXCEPT ![w] =
                        [pc |-> "recv", out |-> NoProcessedPage]]
    /\ UNCHANGED << file, key, call, seq, seqOut, par, parOut, rd, pageQ, wr,
                    reordered >>
    /\ UNCHANGED << env, scanVars, batchVars, restVars >>

\* rx.recv() gives None: the channel is empty and the read task has dropped
\* its sender.
PWClose(w) ==
    /\ w \in DOMAIN pw
    /\ pw[w].pc = "recv"
    /\ pageQ = << >>
    /\ rd.pc = "done"
    /\ pw' = [pw EXCEPT ![w].pc = "done"]
    /\ UNCHANGED << file, key, call, seq, seqOut, par, parOut, rd, pageQ,
                    resQ, wr, reordered >>
    /\ UNCHANGED << env, scanVars, batchVars, restVars >>

\* A write in page order replaced by a write of any pending page.
WriterPick_any(pending, next) == pending

\* pending_pages.remove(&next_expected_page)
WriterPick(pending, next) == {pp \in pending : pp.page = next}

\* Stage C, spawn_write_task: receiver.recv() gives a processed page, which
\* is inserted in pending_pages.
WRecv ==
    /\ wr.pc = "recv"
    /\ resQ # << >>
    /\ resQ' = Tail(resQ)
    /\ wr' = [wr EXCEPT !.pc = "drain", !.pending = @ \cup {Head(resQ)}]
    /\ reordered' = (reordered \/ Head(resQ).page # wr.next)
    /\ UNCHANGED << file, key, call, seq, seqOut, par, parOut, rd, pageQ, pw >>
    /\ UNCHANGED << env, scanVars, batchVars, restVars >>

\* One iteration of the inner loop: the page next_expected_page is pending
\* and is written (its data, or the placeholder for an error page).
WWrite ==
    /\ wr.pc = "drain"
    /\ \E pp \in WriterPick(wr.pending, wr.next) :
          IF WriteFails(parOut)
          THEN /\ wr' = [wr EXCEPT !.pc = "done", !.res = "WriteFailed"]
               /\ UNCHANGED parOut
          ELSE /\ parOut' = [parOut EXCEPT
                                !.data = Append(@, WrittenChunk(pp))]
               /\ wr' = [wr EXCEPT !.pending = @ \ {pp}, !.next = @ + 1]
    /\ UNCHANGED << file, key, call, seq, seqOut, par, rd, pageQ, pw, resQ,
                    reordered >>
    /\ UNCHANGED << env, scanVars, batchVars, restVars >>

\* The inner loop ends: next_expected_page is not pending.
WDrainEnd ==
    /\ wr.pc = "drain"
    /\ WriterPick(wr.pending, wr.next) = {}
    /\ wr' = [wr EXCEPT !.pc = "recv"]
    /\ UNCHANGED << file, key, call, seq, seqOut, par, parOut, rd, pageQ, pw,
                    resQ, reordered >>
    /\ UNCHANGED << env, scanVars, batchVars, restVars >>

\* receiver.recv() gives None: every process task has ended and dropped its
\* sender; the final flush.
WClose ==
    /\ wr.pc = "recv"
    /\ resQ = << >>
    /\ \A w \in PageWorkers : pw[w].pc = "done"
    /\ wr' = [wr EXCEPT !.pc = "done", !.res = "Ok"]
    /\ UNCHANGED << file, key, call, seq, seqOut, par, parOut, rd, pageQ, pw,
                    resQ, reordered >>
    /\ UNCHANGED << env, scanVars, batchVars, restVars >>

\* The statistics line of decrypt_database_parallel, lines 226-227:
\* info!(.., read_result?, process_results.len(), write_result?).  The
\* arguments of an event, and the ? in them, are evaluated only when the
\* event is enabled.
join_result(info_enabled, read_result, write_result) ==
    IF ~info_enabled THEN "Ok"
    ELSE IF read_result # "Ok" THEN read_result
    ELSE IF write_result # "Ok" THEN write_result
    ELSE "Ok"

\* Step 7: try_join! of the three stages (it ends early only for a task
\* that panicked or was cancelled), then the statistics and Ok(()).
ParJoin ==
    /\ par.pc = "running"
    /\ rd.pc = "done"
    /\ \A w \in PageWorkers : pw[w].pc = "done"
    /\ wr.pc = "done"
    /\ ParGoto("done", join_result(env.info_enabled, rd.res, wr.res))
    /\ UNCHANGED << file, key, call, seq, seqOut, parOut, rd, pageQ, pw, resQ,
                    wr, reordered >>
    /\ UNCHANGED << env, scanVars, batchVars, restVars >>

-----------------------------------------------------------------------------
(* The callers of the engine.  call.entry is
     "direct"   a caller of the Decryptor trait: the file is decrypted by
                decrypt_database_sequential and then, to a second output
                file, by decrypt_database_parallel;
     "single"   handle_single_file_decrypt;
     "validate" handle_single_file_decrypt with validate_only;
     "auto"     decrypt_file_with_auto_version, the per-file step of the
                directory batch.                                            *)

Entries == {"direct", "single", "validate", "auto"}

CallGoto(pc, res) == call' = [call EXCEPT !.pc = pc, !.res = res]

DirectStart ==
    /\ call.entry = "direct"
    /\ call.pc = "start"
    /\ CallGoto("decrypt", "none")
    /\ seq' = [seq EXCEPT !.pc = "prepare"]
    /\ UNCHANGED << file, key, seqOut, par, parOut, rd, pageQ, pw, resQ, wr,
                    reordered >>
    /\ UNCHANGED << env, scanVars, batchVars, restVars >>

\* decrypt_file_with_auto_version: files under 1024 bytes are skipped.
AutoCheckSize ==
    /\ call.entry = "auto"
    /\ call.pc = "start"
    /\ IF file_size(file) < MIN_FILE_SIZE
       THEN CallGoto("ended", "FileTooSmall")
       ELSE CallGoto("version", "none")
    /\ UNCHANGED << file, key, seq, seqOut, par, parOut, rd, pageQ, pw, resQ,
                    wr, reordered >>
    /\ UNCHANGED << env, scanVars, batchVars, restVars >>

\* determine_version(..)?, then the return of the validate-only mode or the
\* call of the decryptor create_decryptor gives (V4Decryptor::new(), which
\* decrypts sequentially).
CallDetermineVersion ==
    /\ \/ call.entry \in {"single", "validate"} /\ call.pc = "start"
       \/ call.entry = "auto" /\ call.pc = "version"
    /\ IF determine_version(file, key) # "V4"
       THEN CallGoto("ended", determine_version(file, key)) /\ UNCHANGED seq
       ELSE IF call.entry = "validate"
       THEN CallGoto("ended", "Ok") /\ UNCHANGED seq
       ELSE CallGoto("decrypt", "none") /\ seq' = [seq EXCEPT !.pc = "prepare"]
    /\ UNCHANGED << file, key, seqOut, par, parOut, rd, pageQ, pw, resQ, wr,
                    reordered >>
    /\ UNCHANGED << env, scanVars, batchVars, restVars >>

\* The sequential decryption has returned: its result is the caller's (after
\* verify_output_file, which only logs, in decrypt_single_file); the direct
\* caller goes on with the parallel decryption.
CallSeqReturn ==
    /\ call.pc = "decrypt"
    /\ seq.pc = "done"
    /\ IF call.entry = "direct"
       THEN CallGoto("parallel", "none") /\ ParGoto("prepare", "none")
       ELSE CallGoto("ended", seq.res) /\ UNCHANGED par
    /\ UNCHANGED << file, key, seq, seqOut, parOut, rd, pageQ, pw, resQ, wr,
                    reordered >>
    /\ UNCHANGED << env, scanVars, batchVars, restVars >>

CallParReturn ==
    /\ call.pc = "parallel"
    /\ par.pc = "done"
    /\ CallGoto("ended", par.res)
    /\ UNCHANGED << file, key, seq, seqOut, par, parOut, rd, pageQ, pw, resQ,
                    wr, reordered >>
    /\ UNCHANGED << env, scanVars, batchVars, restVars >>

InitFile ==
    /\ file \in Files
    /\ key \in Keys
    /\ call \in [entry : Entries, pc : {"start"}, res : {"none"}]
    /\ seq = [pc |-> "idle", page |-> 0, res |-> "none"]
    /\ seqOut = NoOutput
    /\ par = [pc |-> "idle", res |-> "none"]
    /\ parOut = NoOutput
    /\ rd = [pc |-> "idle", page |-> 0, batch |-> << >>, res |-> "none"]
    /\ pageQ = << >>
    /\ pw = << >>
    /\ resQ = << >>
    /\ wr = [pc |-> "idle", pending |-> {}, next |-> 0, res |-> "none"]
    /\ reordered = FALSE
    /\ env \in [write_fail : 0 .. MaxWriteFault, info_enabled : BOOLEAN,
                join_fail : {-1}]
    /\ ScanIdle
    /\ BatchIdle
    /\ RestIdle

NextFile ==
    \/ DirectStart
    \/ AutoCheckSize
    \/ CallDetermineVersion
    \/ CallSeqReturn
    \/ CallParReturn
    \/ SeqCheckKey
    \/ SeqCreate
    \/ SeqHeader
    \/ SeqPage
    \/ SeqFinish
    \/ ParPrepare
    \/ ParCreate
    \/ ParHeaderAndSpawn
    \/ ReaderRead
    \/ ReaderSend
    \/ ReaderFinish
    \/ \E w \in PageWorkers : PWRecv(w)
    \/ \E w \in PageWorkers : PWSend(w)
    \/ \E w \in PageWorkers : PWClose(w)
    \/ WRecv
    \/ WWrite
    \/ WDrainEnd
    \/ WClose
    \/ ParJoin

SpecFile == InitFile /\ [][NextFile]_vars

-----------------------------------------------------------------------------
(* Properties of the per-file decryption (checked under SpecFile).          *)

\* The page-0 HMAC check was reached and found a mismatch.
Page0Mismatch ==
    /\ is_database_encrypted(file)
    /\ first_page(file).len >= SALT_SIZE
    /\ derive_keys_v4_ok(key)
    /\ verify_hmac_sha512(first_page(file), key, 0) = "false"

Page0Verified == verify_hmac_sha512(first_page(file), key, 0) = "true"

HasForm(out, form) == \E i \in 1 .. Len(out.data) : out.data[i].form = form

\* C2: in a parallel decryption the write task appends, after the header,
\* page 0, then page 1, and so on: the chunk at position p + 2 of the output
\* is page p, so a page is written only after every page below it and never
\* twice, in whatever order the process tasks deliver their pages.
C2_OrderedWriter ==
    /\ \A i \in 1 .. Len(parOut.data) :
          IF i = 1 THEN parOut.data[i] = HeaderChunk
          ELSE parOut.data[i].page = i - 2
    /\ wr.pc # "idle" => wr.next = Len(parOut.data) - 1
    /\ \A pp \in wr.pending : pp.page >= wr.next

C2_Witness ==
    /\ reordered
    /\ wr.pc = "done"
    /\ Len(parOut.data) = 5

\* C3: when a file and key pass key verification, decrypt_database_parallel
\* succeeds like decrypt_database_sequential and leaves in its output file
\* the byte stream the sequential decryption wrote, whatever the order in
\* which the process tasks completed.
C3_ParallelEqualsSequential ==
    (call.entry = "direct" /\ par.pc = "done" /\ seq.res = "Ok") =>
        /\ par.res = "Ok"
        /\ parOut = seqOut

C3_Witness ==
    /\ reordered
    /\ par.pc = "done"
    /\ par.res = "Ok"
    /\ HasForm(parOut, "raw")
    /\ HasForm(parOut, "plain")
    /\ parOut = seqOut

\* C4: sequential or parallel, the output file exists or holds bytes only if
\* the page-0 HMAC check succeeded; when the check finds a mismatch the
\* decryption returns the key-verification error and its output file was
\* neither created nor written.
C4_VerifyBeforeOutput ==
    /\ seqOut # NoOutput => Page0Verified
    /\ parOut # NoOutput => Page0Verified
    /\ (seq.pc = "done" /\ Page0Mismatch) =>
          seq.res = "KeyVerifyFailed" /\ seqOut = NoOutput
    /\ (par.pc = "done" /\ Page0Mismatch) =>
          par.res = "KeyVerifyFailed" /\ parOut = NoOutput

C4_Witness ==
    /\ Page0Mismatch
    /\ seq.pc = "done"
    /\ par.pc = "done"
    /\ call.pc = "ended"

-----------------------------------------------------------------------------
(* The directory batch: DecryptionProcessor::new and
   handle_directory_decrypt (decrypt_files.rs).                              *)

\* num_cpus::get()
NumCpus == 2
\* the largest thread count requested and the most files collected
MaxThreads == 2
MaxFiles == 3

\* The files a directory holds: a database the key A decrypts, one with a
\* page-0 HMAC of another key, an already decrypted one and one under 1024
\* bytes.
BatchFiles ==
    { DbFile(FALSE, << FullA, FullBad >>),
      DbFile(FALSE, << FullB, FullA >>),
      DbFile(TRUE, << FullA, FullA >>),
      DbFile(FALSE, << LastPage(1000) >>) }

RECURSIVE SeqPages(_, _, _)
SeqPages(f, k, n) ==
    IF n = 0 THEN << HeaderChunk >>
    ELSE Append(SeqPages(f, k, n - 1), SeqProcessPage(f.pages[n], k, n - 1))

\* decrypt_file_with_auto_version as a function of the file, the key and
\* the write that fails (0: none): its result, and the output file it
\* leaves.
AutoResult(f, k, wf) ==
    IF file_size(f) < MIN_FILE_SIZE THEN "FileTooSmall"
    ELSE IF determine_version(f, k) # "V4" THEN determine_version(f, k)
    ELSE IF SeqPrepare(f, k) # "ok" THEN SeqPrepare(f, k)
    ELSE IF wf \in 1 .. total_pages(f) + 1 THEN "WriteFailed"
    ELSE "Ok"

AutoOutput(f, k, wf) ==
    LET r == AutoResult(f, k, wf)
        written == SeqPages(f, k, total_pages(f))
    IN  IF r = "Ok" THEN [created |-> TRUE, data |-> written]
        ELSE IF r = "WriteFailed"
        THEN [created |-> TRUE, data |-> SubSeq(written, 1, wf - 1)]
        ELSE NoOutput

\* A failed file that is counted by neither counter.
CountOutcome_lossy(res) == IF res = "Ok" THEN "success" ELSE "none"

\* The match on the result of decrypt_file_with_auto_version: the counter
\* that is incremented.
CountOutcome(res) == IF res = "Ok" THEN "success" ELSE "failed"

\* Option<usize>
None == [some |-> FALSE, n |-> 0]
Some(n) == [some |-> TRUE, n |-> n]

\* The requested thread count ignored.
thread_count_cpus(threads) == NumCpus

\* DecryptionProcessor::new: threads.unwrap_or_else(num_cpus::get)
thread_count(threads) == IF threads.some THEN threads.n ELSE NumCpus

BatchTasks == 1 .. Len(files)

\* The futures buffer_unordered has taken from the stream and not yet seen
\* complete.
InProgress == {i \in BatchTasks : task[i].pc \in {"acquire", "decrypt", "count"}}

\* The per-file decryptions in progress: the futures inside
\* decrypt_file_with_auto_version.
Decrypting == {i \in BatchTasks : task[i].pc = "decrypt"}

BatchGoto(pc) == batch' = [batch EXCEPT !.pc = pc]

InitBatch ==
    /\ \E n \in 0 .. MaxFiles : files \in [1 .. n -> BatchFiles]
    /\ threadsOpt \in {None} \cup {Some(n) : n \in 0 .. MaxThreads}
    /\ batch \in [pc : {"new"}, key : {KeyA, KeyB}, validate_only : BOOLEAN,
                  threads : {0}, permits : {0}, next : {1},
                  streamDone : {FALSE}, success : {0}, failed : {0},
                  res : {"none"}]
    /\ task = [i \in BatchTasks |-> [pc |-> "created", res |-> "none",
                                     counted |-> "none"]]
    /\ outFiles = [i \in BatchTasks |-> NoOutput]
    /\ ScanIdle
    /\ FileIdle
    /\ RestIdle

\* DecryptionProcessor::new
BatchNew ==
    /\ batch.pc = "new"
    /\ batch' = [batch EXCEPT !.pc = "setup",
                              !.threads = thread_count(threadsOpt)]
    /\ UNCHANGED << files, threadsOpt, task, outFiles >>
    /\ UNCHANGED << scanVars, fileVars, restVars >>

\* handle_directory_decrypt up to the stream: in validate-only mode the key
\* is checked against the first file and the run returns; otherwise the
\* semaphore gets self.threads permits and the counters start at 0.
BatchSetup ==
    /\ batch.pc = "setup"
    /\ IF batch.validate_only
       THEN batch' = [batch EXCEPT
                        !.pc = "done",
                        !.res = IF files # << >>
                                   /\ determine_version(files[1], batch.key) # "V4"
                                THEN determine_version(files[1], batch.key)
                                ELSE "Ok"]
       ELSE batch' = [batch EXCEPT !.pc = "running",
                                   !.permits = batch.threads]
    /\ UNCHANGED << files, threadsOpt, task, outFiles >>
    /\ UNCHANGED << scanVars, fileVars, restVars >>

\* buffer_unordered(self.threads): while fewer than self.threads futures are
\* in progress the stream is polled; it yields the future of the next file,
\* which starts waiting for a permit.
BatchPull ==
    /\ batch.pc = "running"
    /\ ~batch.streamDone
    /\ Cardinality(InProgress) < batch.threads
    /\ batch.next <= Len(files)
    /\ task' = [task EXCEPT ![batch.next].pc = "acquire"]
    /\ batch' = [batch EXCEPT !.next = @ + 1]
    /\ UNCHANGED << files, threadsOpt, outFiles >>
    /\ UNCHANGED << scanVars, fileVars, restVars >>

\* The same poll when no file is left: the stream is done.
BatchStreamEnd ==
    /\ batch.pc = "running"
    /\ ~batch.streamDone
    /\ Cardinality(InProgress) < batch.threads
    /\ batch.next > Len(files)
    /\ batch' = [batch EXCEPT !.streamDone = TRUE]
    /\ UNCHANGED << files, threadsOpt, task, outFiles >>
    /\ UNCHANGED << scanVars, fileVars, restVars >>

\* sem.acquire().await
TaskAcquire(i) ==
    /\ batch.pc = "running"
    /\ task[i].pc = "acquire"
    /\ batch.permits > 0
    /\ batch' = [batch EXCEPT !.permits = @ - 1]
    /\ task' = [task EXCEPT ![i].pc = "decrypt"]
    /\ UNCHANGED << files, threadsOpt, outFiles >>
    /\ UNCHANGED << scanVars, fileVars, restVars >>

\* decrypt_file_with_auto_version(&file, &output_file, &key).await
TaskDecrypt(i) ==
    /\ batch.pc = "running"
    /\ task[i].pc = "decrypt"
    /\ \E wf \in 0 .. MaxWriteFault :
          /\ task' = [task EXCEPT
                         ![i].pc = "count",
                         ![i].res = AutoResult(files[i], batch.key, wf)]
          /\ outFiles' = [outFiles EXCEPT
                             ![i] = AutoOutput(files[i], batch.key, wf)]
    /\ UNCHANGED << files, threadsOpt, batch >>
    /\ UNCHANGED << scanVars, fileVars, restVars >>

\* The match on the result: one counter is incremented; the future ends and
\* its permit is dropped.
TaskCount(i) ==
    /\ batch.pc = "running"
    /\ task[i].pc = "count"
    /\ LET c == CountOutcome(task[i].res)
       IN  /\ task' = [task EXCEPT ![i].pc = "done", ![i].counted = c]
           /\ batch' = [batch EXCEPT
                          !.success = IF c = "success" THEN @ + 1 ELSE @,
                          !.failed = IF c = "failed" THEN @ + 1 ELSE @,
                          !.permits = @ + 1]
    /\ UNCHANGED << files, threadsOpt, outFiles >>
    /\ UNCHANGED << scanVars, fileVars, restVars >>

\* collect() is over: no future is in progress and the stream is done; the
\* totals are logged and the run returns Ok(()).
BatchFinish ==
    /\ batch.pc = "running"
    /\ batch.streamDone
    /\ InProgress = {}
    /\ batch' = [batch EXCEPT !.pc = "done", !.res = "Ok"]
    /\ UNCHANGED << files, threadsOpt, task, outFiles >>
    /\ UNCHANGED << scanVars, fileVars, restVars >>

NextBatch ==
    \/ BatchNew
    \/ BatchSetup
    \/ BatchPull
    \/ BatchStreamEnd
    \/ \E i \in BatchTasks : TaskAcquire(i)
    \/ \E i \in BatchTasks : TaskDecrypt(i)
    \/ \E i \in BatchTasks : TaskCount(i)
    \/ BatchFinish

SpecBatch == InitBatch /\ [][NextBatch]_vars

-----------------------------------------------------------------------------
(* Properties of the directory batch (checked under SpecBatch).             *)

Counted(c) == {i \in BatchTasks : task[i].counted = c}

\* C8: in a batch run (not validate-only) each counter holds the number of
\* files that incremented it; when the run ends every collected file has
\* been processed and has incremented exactly one of success_count and
\* failed_count, so the two add up to the number of files, whatever failed,
\* and the run returns Ok.
C8_EveryFileCounted ==
    /\ batch.pc \in {"running", "done"} =>
          /\ batch.success = Cardinality(Counted("success"))
          /\ batch.failed = Cardinality(Counted("failed"))
    /\ (batch.pc = "done" /\ ~batch.validate_only) =>
          /\ \A i \in BatchTasks :
                /\ task[i].pc = "done"
                /\ task[i].counted \in {"success", "failed"}
                /\ task[i].counted = "success" <=> task[i].res = "Ok"
          /\ batch.success + batch.failed = Len(files)
          /\ batch.res = "Ok"

C8_Witness ==
    /\ batch.pc = "done"
    /\ ~batch.validate_only
    /\ Len(files) = MaxFiles
    /\ batch.failed >= 1
    /\ batch.success >= 1
    /\ task[1].counted = "failed"

\* C9: with a requested thread count t >= 1, at most t futures are in
\* progress and at most t of them are inside decrypt_file_with_auto_version.
C9_AtMostTInProgress ==
    (threadsOpt.some /\ threadsOpt.n >= 1 /\ batch.pc = "running") =>
        /\ Cardinality(Decrypting) <= threadsOpt.n
        /\ Cardinality(InProgress) <= threadsOpt.n

C9_Witness ==
    /\ threadsOpt = Some(1)
    /\ Len(files) >= 2
    /\ Cardinality(Decrypting) = 1
    /\ task[2].pc = "created"

\* The run can go on or has ended.
BatchLive == batch.pc = "done" \/ ENABLED NextBatch

\* C10: with the threads option given as 0 the run uses the CPU count as its
\* concurrency cap, as when the option is omitted, and goes on until every
\* file is processed and the run has returned.
C10_ZeroMeansCpuCount ==
    (threadsOpt = Some(0) /\ batch.pc \in {"running", "done"}) =>
        /\ batch.threads = NumCpus
        /\ BatchLive
        /\ batch.pc = "done" /\ ~batch.validate_only =>
              \A i \in BatchTasks : task[i].pc = "done"

\* The batch's per-file step agrees with the engine: under SpecFile the
\* "auto" caller ends with the result and the output file that AutoResult and
\* AutoOutput give for the same file and key.
AutoSummaryAgrees ==
    (call.entry = "auto" /\ call.pc = "ended") =>
        /\ call.res = AutoResult(file, key, env.write_fail)
        /\ seqOut = AutoOutput(file, key, env.write_fail)

\* The bytes of an output file.
RECURSIVE OutLen(_)
OutLen(data) ==
    IF data = << >> THEN 0 ELSE Head(data).len + OutLen(Tail(data))

\* No write of the call fails.
NoWriteFault == env.write_fail \notin 1 .. total_pages(file) + 1

\* An output that is page by page what C17 describes: after the header,
\* page p at position p + 2, decrypted in place or, when it is all zero or
\* decrypt_page rejects it, as it was read.
PageForPage(out) ==
    /\ Len(out.data) = total_pages(file) + 1
    /\ OutLen(out.data) = file_size(file)
    /\ \A p \in 0 .. total_pages(file) - 1 :
          LET page == file.pages[p + 1]
              c == out.data[p + 2]
          IN  /\ c.page = p
              /\ IF page.body # "zero" /\ decrypt_page(page, key, p).ok
                 THEN /\ c.form = "plain"
                      /\ c.len = IF p = 0 THEN page.len - SALT_SIZE
                                 ELSE page.len
                 ELSE c.form = "raw" /\ c.len = page.len

\* C17: when the file passes key verification and no write fails, the
\* decryption, sequential or parallel, succeeds and its output has the length
\* of the input: the header takes the place of the salt, every page that is
\* rejected (HMAC mismatch, short last page) or all zero is emitted as read
\* at its own position, and the pages after it are still decrypted.
C17_OutputLengthIsInputLength ==
    /\ (seq.pc = "done" /\ SeqPrepare(file, key) = "ok" /\ NoWriteFault) =>
          seq.res = "Ok" /\ PageForPage(seqOut)
    /\ (par.pc = "done" /\ prepare_keys(file, key) = "ok" /\ NoWriteFault) =>
          par.res = "Ok" /\ PageForPage(parOut)

\* Both decryptions of a file with a page of a foreign HMAC and a short last
\* page have succeeded, the parallel one after a reordering.
C17_Witness ==
    /\ seq.pc = "done" /\ seq.res = "Ok"
    /\ par.pc = "done" /\ par.res = "Ok"
    /\ reordered
    /\ total_pages(file) = 4
    /\ file.pages[4].len < PAGE_SIZE
    /\ seqOut.data[4].form = "raw"
    /\ parOut.data[4].form = "raw"
    /\ seqOut.data[5].form = "raw"
    /\ OutLen(parOut.data) = file_size(file)

\* A write of the sequential decryption has failed.
SeqWriteFailed ==
    /\ seq.pc = "done"
    /\ seqOut.created
    /\ Len(seqOut.data) < total_pages(file) + 1
    /\ WriteFails(seqOut)

\* A write of the parallel decryption has failed: the header's, or one of
\* the write task.
ParWriteFailed ==
    /\ par.pc = "done"
    /\ parOut.created
    /\ \/ env.write_fail = 1 /\ parOut.data = << >>
       \/ wr.res = "WriteFailed"

\* C18 (as stated): a decryption in which a write to the output file failed
\* returns an error, sequential or parallel, whether INFO events are
\* recorded or not.
C18_WriteFailureIsError ==
    /\ SeqWriteFailed => seq.res # "Ok"
    /\ ParWriteFailed => par.res # "Ok"

\* Where C18 fails: the write task failed and decrypt_database_parallel
\* returned Ok.
C18_WriteFailureSwallowed ==
    /\ ParWriteFailed
    /\ par.res = "Ok"
    /\ ~env.info_enabled

\* What does hold: the sequential decryption always returns the error, the
\* parallel one when INFO events are recorded or the header's write failed.
WriteFailureIsErrorWhenLogged ==
    /\ SeqWriteFailed => seq.res = "WriteFailed"
    /\ (ParWriteFailed /\ (env.info_enabled \/ parOut.data = << >>)) =>
          par.res # "Ok"

\* The header chunks of an output.
HeaderPositions(out) ==
    {i \in 1 .. Len(out.data) : out.data[i].form = "header"}

\* C20: an output file that holds anything holds the SQLite header as its
\* first write and nowhere else, and a decryption that succeeded wrote it:
\* the header comes exactly once, before page 0 and every other page.
C20_HeaderOnceFirst ==
    /\ seqOut.data # << >> =>
          seqOut.data[1] = HeaderChunk /\ HeaderPositions(seqOut) = {1}
    /\ parOut.data # << >> =>
          parOut.data[1] = HeaderChunk /\ HeaderPositions(parOut) = {1}
    /\ (seq.pc = "done" /\ seq.res = "Ok") => HeaderPositions(seqOut) = {1}
    /\ (par.pc = "done" /\ par.res = "Ok") => HeaderPositions(parOut) = {1}

\* Both decryptions have succeeded with the header followed by three pages.
C20_Witness ==
    /\ seq.pc = "done" /\ seq.res = "Ok"
    /\ par.pc = "done" /\ par.res = "Ok"
    /\ NoWriteFault
    /\ HeaderPositions(seqOut) = {1}
    /\ HeaderPositions(parOut) = {1}
    /\ Len(parOut.data) = 4
    /\ parOut.data[2].page = 0

\* C19 (as stated): when a batch run has ended, no file counted as failed
\* has an output file.
C19_FailedHasNoOutput ==
    batch.pc = "done" =>
        \A i \in BatchTasks :
            task[i].counted = "failed" => outFiles[i] = NoOutput

\* Where C19 fails: a file counted as failed left a created output file
\* holding the header.
C19_PartialOutputLeft ==
    /\ batch.pc = "done"
    /\ \E i \in BatchTasks :
          /\ task[i].counted = "failed"
          /\ outFiles[i].created
          /\ outFiles[i].data = << HeaderChunk >>

\* A file that fails before its output file is created leaves none.
FailedBeforeCreateHasNoOutput ==
    \A i \in BatchTasks :
        (task[i].counted = "failed" /\ task[i].res # "WriteFailed") =>
            outFiles[i] = NoOutput

\* The chunks the outputs hold for the pages of the input: chunk i is page
\* i - 2 (C2).
PageChunks(out) == {i \in 2 .. Len(out.data) : i - 1 <= Len(file.pages)}

\* The processed pages between stage B and the output file.
InFlight ==
    {resQ[i] : i \in 1 .. Len(resQ)} \cup wr.pending \cup
    {pw[w].out : w \in {v \in DOMAIN pw : pw[v].pc = "send"}}

\* C21: a page of the input whose bytes are all zero reaches the output as
\* it was read, all its bytes and nothing else, in the sequential and in
\* the parallel path; in the parallel path it travels as a successful page,
\* never as an error page, so that no placeholder is written for it.
C21_ZeroPagePassthrough ==
    /\ \A i \in PageChunks(seqOut) :
          file.pages[i - 1].body = "zero" =>
              seqOut.data[i] = Chunk("raw", i - 2, file.pages[i - 1].len)
    /\ \A i \in PageChunks(parOut) :
          file.pages[i - 1].body = "zero" =>
              parOut.data[i] = Chunk("raw", i - 2, file.pages[i - 1].len)
    /\ \A pp \in InFlight :
          file.pages[pp.page + 1].body = "zero" =>
              /\ pp.ok
              /\ pp.chunk = Chunk("raw", pp.page, file.pages[pp.page + 1].len)
    /\ \A i \in 1 .. Len(parOut.data) : parOut.data[i].form # "placeholder"

\* Both decryptions of a file whose last page is short and all zero have
\* succeeded and have written its 4095 bytes.
C21_Witness ==
    /\ seq.pc = "done" /\ seq.res = "Ok"
    /\ par.pc = "done" /\ par.res = "Ok"
    /\ NoWriteFault
    /\ Len(file.pages) = 4
    /\ file.pages[4].body = "zero"
    /\ seqOut.data[5] = Chunk("raw", 3, PAGE_SIZE - 1)
    /\ parOut.data[5] = Chunk("raw", 3, PAGE_SIZE - 1)

-----------------------------------------------------------------------------
(* Termination of the per-file pipeline.  The caller, the sequential
   decryption, decrypt_database_parallel and the tasks it spawns are run by
   the tokio runtime: a task that can go on (its channel has room or an
   item or is closed, the tasks it joins have ended) is eventually polled.  *)

CallerStep ==
    \/ DirectStart
    \/ AutoCheckSize
    \/ CallDetermineVersion
    \/ CallSeqReturn
    \/ CallParReturn

SeqStep == SeqCheckKey \/ SeqCreate \/ SeqHeader \/ SeqPage \/ SeqFinish

ParStep == ParPrepare \/ ParCreate \/ ParHeaderAndSpawn \/ ParJoin

ReaderStep == ReaderRead \/ ReaderSend \/ ReaderFinish

PWStep(w) == PWRecv(w) \/ PWSend(w) \/ PWClose(w)

WriterStep == WRecv \/ WWrite \/ WDrainEnd \/ WClose

SpecFileFair ==
    /\ SpecFile
    /\ WF_vars(CallerStep)
    /\ WF_vars(SeqStep)
    /\ WF_vars(ParStep)
    /\ WF_vars(ReaderStep)
    /\ \A w \in PageWorkers : WF_vars(PWStep(w))
    /\ WF_vars(WriterStep)

\* The three stages have ended and both channels are empty.
PipelineAtRest ==
    /\ rd.pc = "done"
    /\ \A w \in PageWorkers : pw[w].pc = "done"
    /\ wr.pc = "done"
    /\ pageQ = << >>
    /\ resQ = << >>

-----------------------------------------------------------------------------
(* Backpressure of the per-file pipeline.  The two channels hold at most
   batch_size * 2 items each, the read task's current_batch at most
   batch_size page tasks and each of the concurrent_pages process tasks one
   page; pending_pages, the write task's BTreeMap, has no capacity.  It is
   checked on a file longer than the sum of the four capacities, decrypted
   with its own key by a caller of the Decryptor trait.                     *)

\* The capacities between the read of a page and its write: current_batch,
\* the page channel, the process tasks and the result channel.
StageCapacity == BatchSize + ChannelCap + ConcurrentPages + ChannelCap

\* A file of StageCapacity + 1 full pages.
LongFile == DbFile(FALSE, [i \in 1 .. StageCapacity + 1 |-> FullA])

InitFlow ==
    /\ file = LongFile
    /\ key = KeyA
    /\ call = [entry |-> "direct", pc |-> "start", res |-> "none"]
    /\ seq = [pc |-> "idle", page |-> 0, res |-> "none"]
    /\ seqOut = NoOutput
    /\ par = [pc |-> "idle", res |-> "none"]
    /\ parOut = NoOutput
    /\ rd = [pc |-> "idle", page |-> 0, batch |-> << >>, res |-> "none"]
    /\ pageQ = << >>
    /\ pw = << >>
    /\ resQ = << >>
    /\ wr = [pc |-> "idle", pending |-> {}, next |-> 0, res |-> "none"]
    /\ reordered = FALSE
    /\ env = [write_fail |-> 0, info_enabled |-> TRUE, join_fail |-> -1]
    /\ ScanIdle
    /\ BatchIdle
    /\ RestIdle

NextFlow ==
    \/ DirectStart
    \/ CallSeqReturn
    \/ CallParReturn
    \/ SeqStep
    \/ ParStep
    \/ ReaderStep
    \/ \E w \in PageWorkers : PWStep(w)
    \/ WriterStep

SpecFlow == InitFlow /\ [][NextFlow]_vars

\* The pages the read task has read and the write task has not written.
PagesInFlight ==
    Len(rd.batch) + Len(pageQ)
      + Cardinality({w \in DOMAIN pw : pw[w].pc = "send"})
      + Len(resQ) + Cardinality(wr.pending)

\* C31: the pages read by stage A and not yet written by stage C are never
\* more than a number fixed by batch_size and concurrent_pages, whatever the
\* page count of the file and however long a page stays in a process task.
C31_InFlightBounded == PagesInFlight <= StageCapacity

\* Page 0 is still in its process task; every other page of the file has
\* been read, processed and handed to the write task, which holds them all.
C31_WriterHoldsFile ==
    /\ \E w \in DOMAIN pw : pw[w].pc = "send" /\ pw[w].out.page = 0
    /\ rd.pc = "done"
    /\ Cardinality(wr.pending) = total_pages(file) - 1

\* What the channels do bound: each holds at most batch_size * 2 items,
\* current_batch at most batch_size page tasks, and the pages in the stages
\* in front of the write task are never more than StageCapacity.
ChannelsBounded ==
    /\ Len(pageQ) <= ChannelCap
    /\ Len(resQ) <= ChannelCap
    /\ Len(rd.batch) <= BatchSize
    /\ PagesInFlight - Cardinality(wr.pending) <= StageCapacity

-----------------------------------------------------------------------------
(* The memory gauge and the read task.  MemoryMonitor::allocate and
   ::deallocate are the only writers of current_usage; they are called by
   whoever holds the decryptor's monitor (memory_monitor(), line 533), at any
   moment of a decryption.  The decryption itself never calls them.         *)

\* The configurations of the model: small_file_config (128), default (512),
\* large_file_config (1024) and 1000, for which 80% is 800 MiB.
MaxMemoryMbs == {128, DEFAULT_MAX_MEMORY_MB, 1000, 1024}

\* The sizes handed to allocate and deallocate.
AllocSizes == {105 * MIB, 405 * MIB}

\* The gauge is followed up to this many MiB.
MaxUsageMb == 900

\* usize arithmetic of max_memory_bytes * 80 / 100, computed as
\* 4 * (a / 5) + 4 * (a % 5) / 5 to stay within 32-bit integers.
eighty_percent(a) == 4 * (a \div 5) + (4 * (a % 5)) \div 5

\* MemoryMonitor::is_memory_pressure
is_memory_pressure(m) == m.usage > eighty_percent(m.max_memory_mb * MIB)

MonFrame ==
    UNCHANGED << scanVars, fileVars, batchVars, cacheVars, procVars, dirVars,
                 memVars, pathVars >>

\* MemoryMonitor::allocate: fetch_add(size)
MonAllocate ==
    /\ par.pc = "running"
    /\ \E size \in AllocSizes :
          /\ mon.usage + size <= MaxUsageMb * MIB
          /\ mon' = [mon EXCEPT !.usage = @ + size]
    /\ MonFrame

\* MemoryMonitor::deallocate: fetch_sub(size), of a size allocated before
MonDeallocate ==
    /\ par.pc = "running"
    /\ \E size \in AllocSizes :
          /\ size <= mon.usage
          /\ mon' = [mon EXCEPT !.usage = @ - size]
    /\ MonFrame

\* A file of two full pages.
ShortFile == DbFile(FALSE, << FullA, FullA >>)

InitGauge ==
    /\ file = ShortFile
    /\ key = KeyA
    /\ call = [entry |-> "direct", pc |-> "start", res |-> "none"]
    /\ seq = [pc |-> "idle", page |-> 0, res |-> "none"]
    /\ seqOut = NoOutput
    /\ par = [pc |-> "idle", res |-> "none"]
    /\ parOut = NoOutput
    /\ rd = [pc |-> "idle", page |-> 0, batch |-> << >>, res |-> "none"]
    /\ pageQ = << >>
    /\ pw = << >>
    /\ resQ = << >>
    /\ wr = [pc |-> "idle", pending |-> {}, next |-> 0, res |-> "none"]
    /\ reordered = FALSE
    /\ env = [write_fail |-> 0, info_enabled |-> TRUE, join_fail |-> -1]
    /\ ScanIdle
    /\ BatchIdle
    /\ CacheIdle /\ ProcIdle /\ DirIdle /\ MemIdle /\ PathIdle
    /\ mon \in {MemoryMonitor_new(x) : x \in MaxMemoryMbs}

NextGauge ==
    \/ NextFlow
    \/ MonAllocate
    \/ MonDeallocate

SpecGauge == InitGauge /\ [][NextGauge]_vars

\* The read task is about to read a page.
ReaderAtRead == rd.pc = "read" /\ rd.page < total_pages(file)

\* A step in which the read task reads a page.
ReadsPage == ReaderAtRead /\ Len(rd'.batch) = Len(rd.batch) + 1

\* C32: the read task reads no page while the gauge is above 80% of
\* max_memory_mb, and it is free to read whenever the gauge is at or below
\* this threshold, for every max_memory_mb.
C32_GaugeGatesReader ==
    /\ [][ReadsPage => ~is_memory_pressure(mon)]_vars
    /\ [](ReaderAtRead /\ ~is_memory_pressure(mon) => ENABLED ReaderRead)

\* With max_memory_mb = 512 and 420 MiB counted (the threshold is 409.6 MiB)
\* the read task reads on.
C32_ReadsAbove80Percent ==
    /\ mon.max_memory_mb = DEFAULT_MAX_MEMORY_MB
    /\ is_memory_pressure(mon)
    /\ ReaderAtRead
    /\ ENABLED ReaderRead

\* With max_memory_mb = 1024 and 810 MiB counted (the threshold is
\* 819.2 MiB) the read task sleeps.
C32_SleepsBelow80Percent ==
    /\ mon.max_memory_mb = 1024
    /\ ~is_memory_pressure(mon)
    /\ ReaderAtRead
    /\ ~ENABLED ReaderRead

\* What the read task does: it reads exactly when the gauge is at or below
\* 800 MiB, which is 80% of max_memory_mb for max_memory_mb = 1000 only.
ReaderGateIs800MiB ==
    /\ ReaderAtRead => (ENABLED ReaderRead <=> mon.usage <= READ_GATE_MB * MIB)
    /\ mon.max_memory_mb = 1000 =>
          (is_memory_pressure(mon) <=> read_gate_closed(mon))

-----------------------------------------------------------------------------
(* Error pages.  A decryption in which the spawn_blocking task of one page
   may end with a JoinError, so that the page reaches the write task as
   ProcessedPage::error and the placeholder is written for it.             *)

PlaceFiles ==
    { DbFile(FALSE, << FullA, FullA, FullA >>),
      DbFile(FALSE, << FullA, FullZero, FullBad, LastPage(100) >>),
      DbFile(FALSE, << FullA, FullB, LastPage(2000) >>) }

InitPlace ==
    /\ file \in PlaceFiles
    /\ key = KeyA
    /\ call = [entry |-> "direct", pc |-> "start", res |-> "none"]
    /\ seq = [pc |-> "idle", page |-> 0, res |-> "none"]
    /\ seqOut = NoOutput
    /\ par = [pc |-> "idle", res |-> "none"]
    /\ parOut = NoOutput
    /\ rd = [pc |-> "idle", page |-> 0, batch |-> << >>, res |-> "none"]
    /\ pageQ = << >>
    /\ pw = << >>
    /\ resQ = << >>
    /\ wr = [pc |-> "idle", pending |-> {}, next |-> 0, res |-> "none"]
    /\ reordered = FALSE
    /\ env \in [write_fail : {0}, info_enabled : {TRUE},
                join_fail : -1 .. Len(file.pages) - 1]
    /\ ScanIdle
    /\ BatchIdle
    /\ RestIdle

SpecPlace == InitPlace /\ [][NextFlow]_vars

\* The byte offset at which chunk i of an output starts.
RECURSIVE ChunkOffset(_, _)
ChunkOffset(data, i) ==
    IF i = 1 THEN 0 ELSE ChunkOffset(data, i - 1) + data[i - 1].len

\* The byte offset at which page p starts when every page in front of it is
\* processed normally.
RECURSIVE NormalOffset(_)
NormalOffset(p) ==
    IF p = 0 THEN SQLITE_HEADER_LEN
    ELSE NormalOffset(p - 1)
           + process_page_async(file.pages[p], key, p - 1).chunk.len

\* Page p comes out of its process task as an error page.
IsErrorPage(p) ==
    process_page(file.pages[p + 1], key, p, env.join_fail) = ErrorPage(p)

\* C33: the write task writes a 4096-byte placeholder of zeros in the place
\* of a page that reached it as an error, and every page written starts at
\* the byte offset it has in a decryption without error pages, whichever
\* page was the error page.
C33_PlaceholderKeepsOffsets ==
    /\ \A pp \in wr.pending \cup {resQ[i] : i \in 1 .. Len(resQ)} :
          ~pp.ok => WrittenChunk(pp) = Chunk("placeholder", pp.page, 4096)
    /\ \A i \in 2 .. Len(parOut.data) :
          /\ parOut.data[i].page = i - 2
          /\ parOut.data[i].form = "placeholder" <=> IsErrorPage(i - 2)
          /\ ChunkOffset(parOut.data, i) = NormalOffset(i - 2)

\* Page 0 was the error page: page 1 starts at byte 4112, not at byte 4096.
C33_Page0ShiftsTheRest ==
    /\ env.join_fail = 0
    /\ Len(parOut.data) >= 3
    /\ parOut.data[2] = Chunk("placeholder", 0, PLACEHOLDER_SIZE)
    /\ ChunkOffset(parOut.data, 3) = SQLITE_HEADER_LEN + PLACEHOLDER_SIZE
    /\ NormalOffset(1) = PAGE_SIZE

\* An error page behind page 0 keeps the offsets of the pages that follow.
OffsetsKeptBehindPage0 ==
    env.join_fail # 0 =>
        \A i \in 2 .. Len(parOut.data) :
            /\ parOut.data[i].page = i - 2
            /\ parOut.data[i].form = "placeholder" <=> IsErrorPage(i - 2)
            /\ ChunkOffset(parOut.data, i) = NormalOffset(i - 2)

-----------------------------------------------------------------------------
(* CachedKeyValidator (cached_key_validator.rs).

   A file is here [salt, db]: db is the file as the decryption engine sees
   it and salt names its first SALT_SIZE bytes.  The HMAC stored in page 0 of
   a file was computed with the MAC key derived from a key and the file's own
   salt, so keys derived from another salt never verify it.                  *)

\* the calls made in all, the files of one batch call and the largest
\* max_memory_entries configured
MaxOps == 2
MaxBatchFiles == 2
MaxEntries == 2

\* Two tasks share the validator and call it concurrently.
Callers == {"c1", "c2"}

CFile(salt, db) == [salt |-> salt, db |-> db]

\* Two files with the same salt, of which the second has a damaged page 0; a
\* file of a second salt whose first page is short; a file of a third salt;
\* a file of fewer than SALT_SIZE bytes.
CFiles ==
    { CFile("s1", DbFile(FALSE, << FullA, FullA >>)),
      CFile("s1", DbFile(FALSE, << FullBad, FullA >>)),
      CFile("s2", DbFile(FALSE, << LastPage(2000) >>)),
      CFile("s3", DbFile(FALSE, << FullA >>)),
      CFile("none", DbFile(FALSE, << LastPage(8) >>)) }

\* read_file_salt: read_exact of SALT_SIZE bytes
read_file_salt_ok(cf) == file_size(cf.db) >= SALT_SIZE

\* blake3::hash, taken to be free of collisions
blake3(x) == << "blake3", x >>

\* A cache key that leaves the salt out.
CacheKey_keyonly(k, salt) ==
    [key_hash |-> blake3(k), salt_hash |-> blake3("s1")]

\* CacheKey::new
CacheKey(k, salt) == [key_hash |-> blake3(k), salt_hash |-> blake3(salt)]

\* derive_keys_v4 when it succeeds: the DerivedKeys of a key and a salt
derive_keys_v4(k, salt) == [id |-> k.id, salt |-> salt, len |-> k.len]

\* verify_hmac_with_keys: verify_page_hmac on the first page of the file
verify_hmac_with_keys(cf, keys) ==
    LET v == verify_hmac_sha512(first_page(cf.db), keys, 0)
    IN  IF v = "true" /\ keys.salt # cf.salt THEN "false" ELSE v

Entry(ck, keys) == [ck |-> ck, keys |-> keys]

\* HashMap::get and HashMap::insert on the key cache
CacheHas(c, ck) == \E e \in c : e.ck = ck
CacheGet(c, ck) == CHOOSE e \in c : e.ck = ck
CacheInsert(c, ck, keys) == {e \in c : e.ck # ck} \cup {Entry(ck, keys)}

\* store_in_cache: the caches it can leave.  At the limit, len / 2 entries
\* are removed, whichever the map's iteration yields first.
store_in_cache(c, ck, keys, max) ==
    IF Cardinality(c) >= max
    THEN { CacheInsert(c \ R, ck, keys) :
             R \in {R \in SUBSET c : Cardinality(R) = Cardinality(c) \div 2} }
    ELSE { CacheInsert(c, ck, keys) }

\* validate_key_cached as a function of the file, the key and the version
\* cache it finds: "V4", "None" or "Err".
SingleResult(cf, k, vc) ==
    IF ~read_file_salt_ok(cf) THEN validate_key_auto(cf.db, k)
    ELSE IF CacheKey(k, cf.salt) \in vc THEN "V4"
    ELSE IF ~derive_keys_v4_ok(k) THEN "Err"
    ELSE LET v == verify_hmac_with_keys(cf, derive_keys_v4(k, cf.salt))
         IN  IF v = "true" THEN "V4"
             ELSE IF v = "false" THEN "None"
             ELSE validate_key_auto(cf.db, k)

NoCall == [pc |-> "idle", kind |-> "none", files |-> << >>,
           key |-> KeyA, hit |-> FALSE, todo |-> {}, keys |-> {},
           results |-> << >>, res |-> "none"]

\* compute_missing_keys_batch computing every key of the list, cached or
\* not.
missing_keys_all(unique_keys, k, c) == unique_keys

\* compute_missing_keys_batch, lines 373-384: the keys of unique_keys (a
\* HashMap keyed by CacheKey, here the set of the salts) that the cache does
\* not hold.  Each gets one task, which calls record_pbkdf2_computation and
\* derives the keys (lines 389-399).
missing_keys(unique_keys, k, c) ==
    {s \in unique_keys : ~CacheHas(c, CacheKey(k, s))}

InitCache ==
    /\ max_memory_entries \in 0 .. MaxEntries
    /\ cache = {}
    /\ version_cache = {}
    /\ cop = [c \in Callers |-> NoCall]
    /\ opsLeft = MaxOps
    /\ evicted = FALSE
    /\ ScanIdle
    /\ FileIdle
    /\ BatchIdle
    /\ ProcIdle
    /\ DirIdle
    /\ MonIdle
    /\ MemIdle
    /\ PathIdle

CacheFrame ==
    UNCHANGED << scanVars, fileVars, batchVars, procVars, dirVars, monVars,
                 memVars, pathVars >>

CacheKeys == {KeyA, KeyShort}

\* The lists of files a batch call is given: results are keyed by path, so
\* a list counts as the set of its files.
BatchLists == {L \in SUBSET CFiles : Cardinality(L) <= MaxBatchFiles}

RECURSIVE SetToSeq(_)
SetToSeq(S) ==
    IF S = {} THEN << >>
    ELSE LET x == CHOOSE x \in S : TRUE IN << x >> \o SetToSeq(S \ {x})

CallGo(c, r) == cop' = [cop EXCEPT ![c] = r]

\* validate_key_cached, lines 164-203: the salt is read (on failure the
\* fallback validator answers), then the version cache and the key cache are
\* looked up.
SingleLookup(c) ==
    /\ cop[c].pc = "idle"
    /\ opsLeft > 0
    /\ opsLeft' = opsLeft - 1
    /\ \E cf \in CFiles, k \in CacheKeys :
          LET ck == CacheKey(k, cf.salt)
              me == [NoCall EXCEPT !.kind = "single", !.files = << cf >>,
                                   !.key = k]
          IN  IF ~read_file_salt_ok(cf)
              THEN CallGo(c, [me EXCEPT !.pc = "done", !.res = "Ok",
                                 !.results = << validate_key_auto(cf.db, k) >>])
              ELSE IF ck \in version_cache
              THEN CallGo(c, [me EXCEPT !.pc = "done", !.res = "Ok",
                                        !.results = << "V4" >>])
              ELSE IF CacheHas(cache, ck)
              THEN CallGo(c, [me EXCEPT !.pc = "verify", !.hit = TRUE,
                                        !.keys = {CacheGet(cache, ck)}])
              ELSE CallGo(c, [me EXCEPT !.pc = "store"])
    /\ UNCHANGED << max_memory_entries, cache, version_cache, evicted >>
    /\ CacheFrame

\* Lines 205-215: record_pbkdf2_computation, compute_derived_keys_async(..)?
\* and store_in_cache.
SingleStore(c) ==
    /\ cop[c].pc = "store"
    /\ cop[c].kind = "single"
    /\ LET cf == cop[c].files[1]
           k == cop[c].key
           ck == CacheKey(k, cf.salt)
           keys == derive_keys_v4(k, cf.salt)
       IN  IF ~derive_keys_v4_ok(k)
           THEN /\ CallGo(c, [cop[c] EXCEPT !.pc = "done", !.res = "Err"])
                /\ UNCHANGED << cache, evicted >>
           ELSE /\ cache' \in store_in_cache(cache, ck, keys,
                                             max_memory_entries)
                /\ evicted' = (evicted \/ ~(cache \subseteq cache'))
                /\ CallGo(c, [cop[c] EXCEPT !.pc = "verify",
                                            !.keys = {Entry(ck, keys)}])
    /\ UNCHANGED << max_memory_entries, version_cache, opsLeft >>
    /\ CacheFrame

\* Lines 219-247: verify_hmac_with_keys; on true the version is cached, on an
\* error the fallback validator answers.
SingleVerify(c) ==
    /\ cop[c].pc = "verify"
    /\ cop[c].kind = "single"
    /\ LET cf == cop[c].files[1]
           k == cop[c].key
           e == CHOOSE e \in cop[c].keys : TRUE
           v == verify_hmac_with_keys(cf, e.keys)
       IN  /\ version_cache' = IF v = "true"
                               THEN version_cache \cup {CacheKey(k, cf.salt)}
                               ELSE version_cache
           /\ CallGo(c, [cop[c] EXCEPT
                 !.pc = "done", !.res = "Ok",
                 !.results = << IF v = "true" THEN "V4"
                                ELSE IF v = "false" THEN "None"
                                ELSE validate_key_auto(cf.db, k) >>])
    /\ UNCHANGED << max_memory_entries, cache, opsLeft, evicted >>
    /\ CacheFrame

\* validate_files_batch, lines 259-275, with compute_missing_keys_batch up
\* to its try_join_all: the salts are read (one failure fails the batch),
\* the cache is looked up under one read lock, the missing keys are
\* computed (one failure fails the batch).
BatchLookup(c) ==
    /\ cop[c].pc = "idle"
    /\ opsLeft > 0
    /\ opsLeft' = opsLeft - 1
    /\ \E L \in BatchLists, k \in CacheKeys :
          LET me == [NoCall EXCEPT !.kind = "batch", !.files = SetToSeq(L),
                                   !.key = k]
              unique_keys == {cf.salt : cf \in L}
              missing == missing_keys(unique_keys, k, cache)
              found == {CacheGet(cache, CacheKey(k, s)) :
                          s \in {s \in unique_keys :
                                    CacheHas(cache, CacheKey(k, s))}}
          IN  IF \E cf \in L : ~read_file_salt_ok(cf)
              THEN CallGo(c, [me EXCEPT !.pc = "done", !.res = "Err"])
              ELSE IF missing # {} /\ ~derive_keys_v4_ok(k)
              THEN CallGo(c, [me EXCEPT !.pc = "done", !.res = "Err"])
              ELSE CallGo(c, [me EXCEPT
                      !.pc = IF missing = {} THEN "verify" ELSE "store",
                      !.hit = (found # {}),
                      !.todo = missing, !.keys = found])
    /\ UNCHANGED << max_memory_entries, cache, version_cache, evicted >>
    /\ CacheFrame

\* compute_missing_keys_batch, lines 405-408: one store_in_cache per
\* computed key, each under its own write lock.
BatchStore(c) ==
    /\ cop[c].pc = "store"
    /\ cop[c].kind = "batch"
    /\ \E s \in cop[c].todo :
          LET k == cop[c].key
              ck == CacheKey(k, s)
              keys == derive_keys_v4(k, s)
              todo == cop[c].todo \ {s}
          IN  /\ cache' \in store_in_cache(cache, ck, keys,
                                           max_memory_entries)
              /\ evicted' = (evicted \/ ~(cache \subseteq cache'))
              /\ CallGo(c, [cop[c] EXCEPT
                    !.pc = IF todo = {} THEN "verify" ELSE "store",
                    !.todo = todo,
                    !.keys = CacheInsert(@, ck, keys)])
    /\ UNCHANGED << max_memory_entries, version_cache, opsLeft >>
    /\ CacheFrame

\* validate_files_batch, lines 278-296: every file is verified with the
\* keys found for its cache key; an error counts as no version.
BatchVerify(c) ==
    /\ cop[c].pc = "verify"
    /\ cop[c].kind = "batch"
    /\ LET k == cop[c].key
           fs == cop[c].files
           KeysOf(cf) == (CHOOSE e \in cop[c].keys :
                             e.ck = CacheKey(k, cf.salt)).keys
       IN  /\ CallGo(c, [cop[c] EXCEPT
                 !.pc = "done", !.res = "Ok",
                 !.results =
                    [i \in DOMAIN fs |->
                       IF verify_hmac_with_keys(fs[i], KeysOf(fs[i])) = "true"
                       THEN "V4" ELSE "None"]])
    /\ UNCHANGED << max_memory_entries, cache, version_cache, opsLeft,
                    evicted >>
    /\ CacheFrame

\* The call returns to its caller.
CallReturn(c) ==
    /\ cop[c].pc = "done"
    /\ CallGo(c, NoCall)
    /\ UNCHANGED << max_memory_entries, cache, version_cache, opsLeft,
                    evicted >>
    /\ CacheFrame

NextCache ==
    \/ \E c \in Callers : SingleLookup(c)
    \/ \E c \in Callers : SingleStore(c)
    \/ \E c \in Callers : SingleVerify(c)
    \/ \E c \in Callers : BatchLookup(c)
    \/ \E c \in Callers : BatchStore(c)
    \/ \E c \in Callers : BatchVerify(c)
    \/ \E c \in Callers : CallReturn(c)

SpecCache == InitCache /\ [][NextCache]_vars

\* C11 (as stated): the derived-key cache never holds more entries than
\* max_memory_entries.
C11_CacheBounded == Cardinality(cache) <= max_memory_entries

\* What store_in_cache does guarantee: the cache never grows beyond the
\* larger of 2 and the configured limit.
CacheBoundedFromTwo ==
    Cardinality(cache) <= IF max_memory_entries < 2 THEN 2
                          ELSE max_memory_entries

\* Where C11 fails: a limit of one entry and a cache of two.
C11_TwoEntriesLimitOne == max_memory_entries = 1 /\ Cardinality(cache) = 2

BatchDone(c) == cop[c].pc = "done" /\ cop[c].kind = "batch"

\* C12 (as stated): when validate_files_batch has ended, it has returned
\* results, and its result for every file of the list is what
\* validate_key_cached returns for that file and key.
C12_BatchEqualsSingle ==
    \A c \in Callers :
        BatchDone(c) =>
            /\ cop[c].res = "Ok"
            /\ \A i \in DOMAIN cop[c].files :
                  cop[c].results[i] =
                      SingleResult(cop[c].files[i], cop[c].key, version_cache)

\* Where C12 fails first: the version cache answers V4 for a (key, salt)
\* whose file the batch call verified and rejected.
C12_VersionCacheDisagrees ==
    \E c \in Callers :
        /\ BatchDone(c)
        /\ cop[c].res = "Ok"
        /\ \E i \in DOMAIN cop[c].files :
              /\ cop[c].results[i] = "None"
              /\ CacheKey(cop[c].key, cop[c].files[i].salt) \in version_cache

\* Where C12 fails second: one file too short for a salt fails a batch call
\* whose other file the single-file validator answers.
C12_ShortFileFailsBatch ==
    \E c \in Callers :
        /\ BatchDone(c)
        /\ cop[c].res = "Err"
        /\ derive_keys_v4_ok(cop[c].key)
        /\ Len(cop[c].files) = 2

\* validate_key_cached returns what SingleResult computes from the version
\* cache the call found.
SingleAgrees ==
    \A c \in Callers :
        (cop[c].pc = "done" /\ cop[c].kind = "single") =>
            \/ cop[c].res = "Err" /\ ~derive_keys_v4_ok(cop[c].key)
            \/ /\ cop[c].res = "Ok"
               /\ \/ cop[c].results[1] =
                        SingleResult(cop[c].files[1], cop[c].key, {})
                  \/ /\ cop[c].results[1] = "V4"
                     /\ CacheKey(cop[c].key, cop[c].files[1].salt)
                            \in version_cache

\* C13: every entry of the key cache, and every set of derived keys a call
\* holds for verification (from a hit or from a computation, in the
\* single-file or the batch call), is derive_keys_v4 of the key and the salt
\* its CacheKey was made from.
C13_CacheHoldsDerivedKeys ==
    LET Right(e) == \E k \in CacheKeys, cf \in CFiles :
                        /\ e.ck = CacheKey(k, cf.salt)
                        /\ e.keys = derive_keys_v4(k, cf.salt)
    IN  /\ \A e \in cache : Right(e)
        /\ \A c \in Callers :
              /\ \A e \in cop[c].keys : Right(e)
              /\ cop[c].pc = "verify" =>
                    \A i \in DOMAIN cop[c].files :
                       \E e \in cop[c].keys :
                          /\ e.ck = CacheKey(cop[c].key, cop[c].files[i].salt)
                          /\ e.keys = derive_keys_v4(cop[c].key,
                                                     cop[c].files[i].salt)

\* An eviction has happened and a call verifies with keys it found cached.
C13_Witness ==
    /\ evicted
    /\ \E c \in Callers : cop[c].pc = "verify" /\ cop[c].hit
    /\ cache # {}

SingleDone(c) == cop[c].pc = "done" /\ cop[c].kind = "single"

\* C34: what validate_key_cached returns for a file and a key is what the
\* uncached KeyValidator::validate_key_auto returns for them, whatever calls
\* on other files (of the same salt or not) came before.
C34_CachedEqualsUncached ==
    \A c \in Callers :
        SingleDone(c) =>
            /\ cop[c].res = "Ok"
            /\ cop[c].results[1] =
                  validate_key_auto(cop[c].files[1].db, cop[c].key)

\* Where C34 fails: after a call on a file of the same salt has cached the
\* version, the file with the damaged page 0 is answered V4.
C34_StaleVersionAnswer ==
    \E c \in Callers :
        /\ SingleDone(c)
        /\ cop[c].res = "Ok"
        /\ cop[c].results[1] = "V4"
        /\ validate_key_auto(cop[c].files[1].db, cop[c].key) = "None"
        /\ CacheKey(cop[c].key, cop[c].files[1].salt) \in version_cache

\* The two ways in which the cached validator departs from the uncached
\* one: an answer taken from the version cache, and the error returned for
\* a key derive_keys_v4 rejects (the uncached validator answers None).
CachedDepartsOnlyByVersionCache ==
    \A c \in Callers :
        SingleDone(c) =>
            \/ cop[c].res = "Err" /\ ~derive_keys_v4_ok(cop[c].key)
            \/ /\ cop[c].res = "Ok"
               /\ \/ cop[c].results[1] =
                        validate_key_auto(cop[c].files[1].db, cop[c].key)
                  \/ /\ cop[c].results[1] = "V4"
                     /\ CacheKey(cop[c].key, cop[c].files[1].salt)
                            \in version_cache

\* A single-file call between its miss in the key cache and its store: it
\* is about to call record_pbkdf2_computation and to derive the keys
\* (lines 204-214).
Deriving(c) == cop[c].kind = "single" /\ cop[c].pc = "store"

CallCacheKey(c) == CacheKey(cop[c].key, cop[c].files[1].salt)

\* C35: of the validate_key_cached calls that run concurrently for one
\* (key, salt) missing from the cache, a single one derives the keys: no
\* two of them are, at the same time, past the miss and in front of the
\* derivation.
C35_SingleFlight ==
    \A c, d \in Callers :
        (c # d /\ Deriving(c) /\ Deriving(d)) =>
            CallCacheKey(c) # CallCacheKey(d)

\* Where C35 fails: one call has derived and stored the keys of a CacheKey,
\* and the other, which missed the cache before, derives them again.
C35_SecondDerivation ==
    \E c, d \in Callers :
        /\ c # d
        /\ Deriving(d)
        /\ cop[c].kind = "single" /\ cop[c].pc = "verify" /\ ~cop[c].hit
        /\ CallCacheKey(c) = CallCacheKey(d)
        /\ CacheHas(cache, CallCacheKey(d))

\* The CacheKeys of the files of a batch call.
UniqueKeysOf(r) == {CacheKey(r.key, r.files[i].salt) : i \in DOMAIN r.files}

\* C36: a validate_files_batch call derives the keys of exactly those
\* CacheKeys of its list that the cache does not hold when it looks them up,
\* each of them once whatever the number of files that share it, and takes
\* the others from the cache; the derived_keys it returns hold the keys of
\* every CacheKey of the list.
C36_BatchDerivesOncePerKey ==
    /\ [][\A c \in Callers :
            /\ (cop[c].pc = "idle" /\ cop'[c].kind = "batch"
                  /\ cop'[c].pc # "done") =>
                  /\ {CacheKey(cop'[c].key, s) : s \in cop'[c].todo} =
                        {ck \in UniqueKeysOf(cop'[c]) : ~CacheHas(cache, ck)}
                  /\ cop'[c].keys =
                        {e \in cache : e.ck \in UniqueKeysOf(cop'[c])}
            /\ (cop[c].kind = "batch" /\ cop[c].pc = "store"
                  /\ cop'[c] # cop[c]) =>
                  \E s \in cop[c].todo :
                     /\ cop'[c].todo = cop[c].todo \ {s}
                     /\ ~\E e \in cop[c].keys : e.ck = CacheKey(cop[c].key, s)
                     /\ cop'[c].keys = cop[c].keys \cup
                           {Entry(CacheKey(cop[c].key, s),
                                  derive_keys_v4(cop[c].key, s))}]_vars
    /\ [](\A c \in Callers :
            (BatchDone(c) /\ cop[c].res = "Ok") =>
               /\ cop[c].todo = {}
               /\ {e.ck : e \in cop[c].keys} = UniqueKeysOf(cop[c])
               /\ Cardinality(cop[c].keys) = Cardinality(UniqueKeysOf(cop[c]))
               /\ \A e \in cop[c].keys :
                     \E i \in DOMAIN cop[c].files :
                        /\ e.ck = CacheKey(cop[c].key, cop[c].files[i].salt)
                        /\ e.keys = derive_keys_v4(cop[c].key,
                                                   cop[c].files[i].salt))

\* A batch call over two files of one salt has ended after deriving one set
\* of keys, and a second call has taken them from the cache.
C36_Witness ==
    \E c, d \in Callers :
        /\ c # d
        /\ BatchDone(c) /\ cop[c].res = "Ok" /\ ~cop[c].hit
        /\ Len(cop[c].files) = 2
        /\ cop[c].files[1].salt = cop[c].files[2].salt
        /\ Cardinality(cop[c].keys) = 1
        /\ BatchDone(d) /\ cop[d].res = "Ok" /\ cop[d].hit
        /\ cop[d].keys = cop[c].keys

-----------------------------------------------------------------------------
(* Part 5: process enumeration, src/core/src/utils/windows/process.rs.

   A snapshot is the sequence of the entries Process32FirstW / Process32NextW
   deliver.  The pid of an entry is its position; match says whether its
   name passes the filter; open is what OpenProcess does for it: "ok", "err"
   (access denied, process gone) or "null" (an Ok carrying an invalid handle,
   which only Handle::new can reject).  A failing CreateToolhelp32Snapshot
   and a name that is not valid UTF-16 are left out.                         *)

\* the processes of one snapshot
MaxProcs == 3

OpenOutcomes == {"ok", "err", "null"}

ProcEntry(pid, parent, match, open) ==
    [pid |-> pid, parent_pid |-> parent, match |-> match, open |-> open]

\* The snapshots of n processes: each has no parent in the snapshot (0) or
\* the first process as its parent.
Snapshots(n) ==
    { s \in [1 .. n -> [parent_pid : {0, 1}, match : BOOLEAN,
                        open : OpenOutcomes]] : TRUE }

SnapshotEntry(s, i) == ProcEntry(i, s[i].parent_pid, s[i].match, s[i].open)

ProcessInfo(e) ==
    [pid |-> e.pid, parent_pid |-> e.parent_pid, is_main_process |-> FALSE]

Pids(ps) == {ps[i].pid : i \in DOMAIN ps}

\* lines 111-119: a process is a main process when its parent is not among
\* the processes found
mark_main(ps) ==
    [i \in DOMAIN ps |->
        [ps[i] EXCEPT !.is_main_process = ps[i].parent_pid \notin Pids(ps)]]

\* lines 122-124: processes.retain(|p| p.is_main_process)
retain_main(ps) == SelectSeq(ps, LAMBDA p : p.is_main_process)

\* What the let-else of lines 66-77 does with a process that matches: Ok
\* with its record, a skip, or the error OpenProcess(..)? returns from
\* list_processes.
open_matching(e) ==
    IF e.open = "err" THEN "return_err"
    ELSE IF e.open = "null" THEN "skip"
    ELSE "push"

InitProc ==
    /\ \E n \in 0 .. MaxProcs :
         \E s \in Snapshots(n), m \in BOOLEAN :
            lp = [pc |-> "first", snapshot |-> s, main_process_only |-> m,
                  i |-> 0, processes |-> << >>, res |-> "none",
                  snapshot_open |-> TRUE]
    /\ ScanIdle
    /\ FileIdle
    /\ BatchIdle
    /\ CacheIdle
    /\ DirIdle
    /\ MonIdle
    /\ MemIdle
    /\ PathIdle

ProcFrame ==
    UNCHANGED << scanVars, fileVars, batchVars, cacheVars, dirVars, monVars,
                 memVars, pathVars >>

\* lines 45-55: the snapshot is taken; Process32FirstW fails on an empty
\* snapshot and the empty list is returned.
ProcFirst ==
    /\ lp.pc = "first"
    /\ IF Len(lp.snapshot) = 0
       THEN lp' = [lp EXCEPT !.pc = "done", !.res = "Ok",
                             !.snapshot_open = FALSE]
       ELSE lp' = [lp EXCEPT !.pc = "loop", !.i = 1]
    /\ ProcFrame

\* lines 57-107: one turn of the loop and the Process32NextW after it.
ProcLoop ==
    /\ lp.pc = "loop"
    /\ LET e == SnapshotEntry(lp.snapshot, lp.i)
           act == IF e.match THEN open_matching(e) ELSE "skip"
           more == lp.i < Len(lp.snapshot)
       IN  IF act = "return_err"
           THEN lp' = [lp EXCEPT !.pc = "done", !.res = "Err",
                                 !.processes = << >>,
                                 !.snapshot_open = FALSE]
           ELSE lp' = [lp EXCEPT
                   !.processes = IF act = "push"
                                 THEN Append(@, ProcessInfo(e)) ELSE @,
                   !.i = IF more THEN @ + 1 ELSE @,
                   !.pc = IF more THEN "loop" ELSE "finish"]
    /\ ProcFrame

\* lines 110-126: the main processes are marked, the others dropped on
\* request, the list is returned and the snapshot handle dropped.
ProcFinish ==
    /\ lp.pc = "finish"
    /\ lp' = [lp EXCEPT
                !.pc = "done", !.res = "Ok", !.snapshot_open = FALSE,
                !.processes = IF lp.main_process_only
                              THEN retain_main(mark_main(@))
                              ELSE mark_main(@)]
    /\ ProcFrame

NextProc == ProcFirst \/ ProcLoop \/ ProcFinish

SpecProc == InitProc /\ [][NextProc]_vars

\* The name-matching processes of a snapshot that can be opened.
Openable(s) ==
    {i \in DOMAIN s : s[i].match /\ s[i].open = "ok"}

\* C14 (as stated): list_processes never returns an error because a
\* matching process could not be opened, and it returns every matching
\* process that can be opened (every main one of them when only main
\* processes are asked for).
C14_OpenFailureSkipped ==
    lp.pc = "done" =>
        /\ lp.res = "Ok"
        /\ Pids(lp.processes) =
              IF lp.main_process_only
              THEN {i \in Openable(lp.snapshot) :
                       lp.snapshot[i].parent_pid \notin Openable(lp.snapshot)}
              ELSE Openable(lp.snapshot)

\* Where C14 fails: an error is returned although a matching process can be
\* opened.
C14_ErrLosesOpenable ==
    /\ lp.pc = "done"
    /\ lp.res = "Err"
    /\ Openable(lp.snapshot) # {}

\* Without a failing OpenProcess the list is as C14 says.
ProcListRight ==
    (\A i \in DOMAIN lp.snapshot :
        lp.snapshot[i].match => lp.snapshot[i].open # "err")
        => C14_OpenFailureSkipped

\* The processes of a snapshot whose name passes the filter (line 59).
NameFiltered(s) == {i \in DOMAIN s : s[i].match}

\* What list_processes returns for a snapshot none of whose matching
\* processes makes OpenProcess fail: the records of lines 94-102 in the
\* order of the snapshot, marked and, on request, reduced to the main ones.
found_processes(s) ==
    LET idx == SelectSeq([i \in DOMAIN s |-> i],
                         LAMBDA i : s[i].match /\ s[i].open = "ok")
    IN  [k \in DOMAIN idx |-> ProcessInfo(SnapshotEntry(s, idx[k]))]

returned_list(s, main_process_only) ==
    IF main_process_only
    THEN retain_main(mark_main(found_processes(s)))
    ELSE mark_main(found_processes(s))

Records(ps) == {ps[i] : i \in DOMAIN ps}

C39_ChildOfSkippedTagged ==
    /\ lp.pc = "done"
    /\ lp.res = "Ok"
    /\ \E i \in DOMAIN lp.processes :
          /\ lp.processes[i].is_main_process
          /\ lp.processes[i].parent_pid \in NameFiltered(lp.snapshot)
          /\ lp.snapshot[lp.processes[i].parent_pid].open = "null"

\* Measured against the processes that were opened, the tagging and the
\* reduction are as C39 says.
MainAmongFound ==
    (lp.pc = "done" /\ lp.res = "Ok") =>
        /\ \A i \in DOMAIN lp.processes :
              lp.processes[i].is_main_process <=>
                 lp.processes[i].parent_pid \notin Openable(lp.snapshot)
        /\ lp.processes = returned_list(lp.snapshot, lp.main_process_only)
        /\ lp.main_process_only =>
              /\ \A i \in DOMAIN lp.processes :
                    lp.processes[i].is_main_process
              /\ Records(lp.processes) \subseteq
                    Records(returned_list(lp.snapshot, FALSE))

-----------------------------------------------------------------------------
(* Part 6: the data-directory resolver,
   src/core/src/wechat/process/windows/win_process_detector.rs.

   The registry value, when present, names a path that is a directory or
   not.  Every .ini file that can be read as a non-empty UTF-8 string names
   a base path; the file has a modification time, and the base path has a
   xwechat_files\wxid_* directory (live) or not.  mem is what the search of
   the process memory for the candidate's path gives: "found", "absent" or
   "err".  A failure to list the configuration directory or the wxid_
   directories is left out.                                                  *)

\* the .ini files of the configuration directory and their distinct
\* modification times
MaxInis == 2
MaxMtime == 2

MemOutcomes == {"found", "absent", "err"}

RegValues ==
    {[present |-> FALSE, live |-> FALSE, mem |-> "absent"]} \cup
    [present : {TRUE}, live : BOOLEAN, mem : MemOutcomes]

IniFiles(n) ==
    [1 .. n -> [mtime : 1 .. MaxMtime, live : BOOLEAN, mem : MemOutcomes]]

NotFound == [kind |-> "notfound", src |-> 0]
Found(src) == [kind |-> "found", src |-> src]
ResolveErr == [kind |-> "err", src |-> 0]

\* potential_dirs.sort_by(|a, b| b.1.cmp(&a.1)): a stable sort, newest
\* first.  sorted_inis(inis)[r] is the index of the file at rank r.
sorted_inis(inis) ==
    LET Before(a, b) == \/ inis[a].mtime > inis[b].mtime
                        \/ inis[a].mtime = inis[b].mtime /\ a < b
        Rank(a) == 1 + Cardinality({b \in DOMAIN inis : Before(b, a)})
    IN  [r \in DOMAIN inis |-> CHOOSE a \in DOMAIN inis : Rank(a) = r]

\* find_from_xwechat_config, lines 201-213: the first base path, newest
\* first, that validate_wechat_data_directory accepts; 0 when there is none.
find_from_xwechat_config(inis) ==
    LET order == sorted_inis(inis)
        live == {r \in DOMAIN order : inis[order[r]].live}
    IN  IF live = {} THEN 0
        ELSE order[CHOOSE r \in live : \A q \in live : r <= q]

InitDir ==
    /\ \E n \in 0 .. MaxInis :
         \E reg \in RegValues, inis \in IniFiles(n) :
            rs = [pc |-> "registry", reg |-> reg, inis |-> inis,
                  candidate |-> 0, res |-> NotFound]
    /\ ScanIdle
    /\ FileIdle
    /\ BatchIdle
    /\ CacheIdle
    /\ ProcIdle
    /\ MonIdle
    /\ MemIdle
    /\ PathIdle

DirFrame ==
    UNCHANGED << scanVars, fileVars, batchVars, cacheVars, procVars, monVars,
                 memVars, pathVars >>

\* find_wechat_data_directory, lines 47-64: the registry path, when it is a
\* directory, is searched for in the process memory.
ResolveRegistry ==
    /\ rs.pc = "registry"
    /\ IF rs.reg.present /\ rs.reg.live
       THEN IF rs.reg.mem = "found"
            THEN rs' = [rs EXCEPT !.pc = "done", !.res = Found(0)]
            ELSE IF rs.reg.mem = "err"
            THEN rs' = [rs EXCEPT !.pc = "done", !.res = ResolveErr]
            ELSE rs' = [rs EXCEPT !.pc = "config"]
       ELSE rs' = [rs EXCEPT !.pc = "config"]
    /\ DirFrame

\* line 67: find_from_xwechat_config picks its one candidate.
ResolveConfig ==
    /\ rs.pc = "config"
    /\ LET c == find_from_xwechat_config(rs.inis)
       IN  IF c = 0
           THEN rs' = [rs EXCEPT !.pc = "done", !.res = NotFound]
           ELSE rs' = [rs EXCEPT !.pc = "check", !.candidate = c]
    /\ DirFrame

\* The second strategy returning its candidate without the search of the
\* process memory.
ResolveCheck_unchecked ==
    /\ rs.pc = "check"
    /\ rs' = [rs EXCEPT !.pc = "done", !.res = Found(rs.candidate)]
    /\ DirFrame

\* lines 68-83: that candidate is searched for in the process memory.
ResolveCheck ==
    /\ rs.pc = "check"
    /\ LET mem == rs.inis[rs.candidate].mem
       IN  rs' = [rs EXCEPT
                    !.pc = "done",
                    !.res = IF mem = "found" THEN Found(rs.candidate)
                            ELSE IF mem = "err" THEN ResolveErr
                            ELSE NotFound]
    /\ DirFrame

NextDir == ResolveRegistry \/ ResolveConfig \/ ResolveCheck

SpecDir == InitDir /\ [][NextDir]_vars

\* The candidates of a resolution in strategy order: 0 is the registry
\* path, then the .ini files newest first.
PassesBoth(r, src) ==
    IF src = 0 THEN r.reg.present /\ r.reg.live /\ r.reg.mem = "found"
    ELSE r.inis[src].live /\ r.inis[src].mem = "found"

FirstPassing(r) ==
    IF PassesBoth(r, 0) THEN Found(0)
    ELSE LET order == sorted_inis(r.inis)
             ok == {q \in DOMAIN order : PassesBoth(r, order[q])}
         IN  IF ok = {} THEN NotFound
             ELSE Found(order[CHOOSE q \in ok : \A p \in ok : q <= p])

\* C15 (as stated): a resolution that ends without a memory-search error
\* returns the first candidate, in strategy order, that passes the liveness
\* gate and the memory cross-check, and "not found" only when there is
\* none.
C15_FirstPassingWins ==
    (rs.pc = "done" /\ rs.res # ResolveErr) => rs.res = FirstPassing(rs)

\* Where C15 fails: "not found" although an older .ini candidate passes
\* both gates.
C15_OlderCandidateLost ==
    /\ rs.pc = "done"
    /\ rs.res = NotFound
    /\ \E i \in DOMAIN rs.inis : PassesBoth(rs, i)

\* What the resolver does return: the registry path when it passes both
\* gates, else the newest live .ini candidate when the memory holds it.
ResolverChecksOneIni ==
    (rs.pc = "done" /\ rs.res # ResolveErr) =>
        rs.res = IF PassesBoth(rs, 0) THEN Found(0)
                 ELSE LET c == find_from_xwechat_config(rs.inis)
                      IN  IF c # 0 /\ rs.inis[c].mem = "found"
                          THEN Found(c) ELSE NotFound

\* What the search of the process memory gave for the candidate src.
MemOf(r, src) == IF src = 0 THEN r.reg.mem ELSE r.inis[src].mem

\* C38: the directory a resolution returns, from the registry or from a
\* configuration file, is one whose path the search of the process memory
\* found during this resolution; a candidate the search did not find, or
\* for which it failed, is never returned.
C38_ReturnedPassedCrossCheck ==
    (rs.pc = "done" /\ rs.res.kind = "found") =>
        /\ rs.res.src \in {0} \cup DOMAIN rs.inis
        /\ MemOf(rs, rs.res.src) = "found"
        /\ rs.res.src = 0 => rs.reg.present

\* The registry path is a directory the memory does not hold; the directory
\* of a configuration file, which it holds, is returned.
C38_Witness ==
    /\ rs.pc = "done"
    /\ rs.res.kind = "found"
    /\ rs.res.src # 0
    /\ rs.reg.present /\ rs.reg.live /\ rs.reg.mem = "absent"
    /\ \E i \in DOMAIN rs.inis : rs.inis[i].mem = "absent"

-----------------------------------------------------------------------------
(* Part 7: search_memory_for_pattern, src/core/src/utils/windows/memory.rs.

   The target's address space is a sequence of regions that follow one
   another from MIN_ADDRESS; a region is readable (committed, with a
   readable protection) or not, and holds bytes.  A ReadProcessMemory call
   on a readable region copies all the bytes asked for, or some of them, or
   fails after copying some.                                                *)

\* WindowsProcessDetector::MIN_ADDRESS, the start_address of the search
MIN_ADDRESS == 65536

\* The number of bytes asked for in one read: SCAN_BUFFER_SIZE, 8192 in the
\* code, scaled down so that the regions of the model take several reads.
ScanChunk == 2

\* The largest max_occurrences (the resolver passes 1).
MaxOccurrences == 2

MemRegion(readable, bytes) == [readable |-> readable, bytes |-> bytes]

\* Address spaces: one region read in several chunks; two adjacent readable
\* regions with an occurrence across their border; two readable regions with
\* a region that is not readable between them; three readable regions; an
\* occurrence behind a region of one byte.
MemLayouts ==
    { << MemRegion(TRUE, << "a", "b", "a", "a", "b" >>) >>,
      << MemRegion(TRUE, << "x", "a" >>), MemRegion(TRUE, << "b", "a" >>) >>,
      << MemRegion(TRUE, << "x", "a" >>), MemRegion(FALSE, << "x" >>),
         MemRegion(TRUE, << "b", "x" >>) >>,
      << MemRegion(TRUE, << "a", "a" >>), MemRegion(TRUE, << "x", "x" >>),
         MemRegion(TRUE, << "b", "a", "b" >>) >>,
      << MemRegion(TRUE, << "a" >>), MemRegion(TRUE, << "a", "b" >>) >> }

Patterns == { << "a", "b" >>, << "a", "a", "b" >> }

RECURSIVE RegionBase(_, _)
RegionBase(L, r) ==
    IF r = 1 THEN MIN_ADDRESS
    ELSE RegionBase(L, r - 1) + Len(L[r - 1].bytes)

\* region_end = region_base + RegionSize
RegionEnd(L, r) == RegionBase(L, r) + Len(L[r].bytes)

\* Whether the pattern is at address a: every byte of it is in a readable
\* region and is the byte the memory holds there.
TrueOccurrence(L, pat, a) ==
    \A j \in 1 .. Len(pat) :
        \E r \in DOMAIN L :
            /\ RegionBase(L, r) <= a + j - 1
            /\ a + j - 1 < RegionEnd(L, r)
            /\ L[r].readable
            /\ L[r].bytes[a + j - RegionBase(L, r)] = pat[j]

\* Lines 133-144: the windows of search_area in order; a window equal to the
\* pattern at an address above the last one found is pushed, and the search
\* returns once max_occurrences addresses are found.
RECURSIVE SearchArea(_, _, _, _, _, _)
SearchArea(found, area, pat, base, max, i) ==
    IF i + Len(pat) > Len(area) THEN found
    ELSE IF /\ SubSeq(area, i + 1, i + Len(pat)) = pat
            /\ (found = << >> \/ found[Len(found)] < base + i)
    THEN LET f == Append(found, base + i)
         IN  IF Len(f) >= max THEN f
             ELSE SearchArea(f, area, pat, base, max, i + 1)
    ELSE SearchArea(found, area, pat, base, max, i + 1)

InitMem ==
    /\ \E L \in MemLayouts, pat \in Patterns, max \in 1 .. MaxOccurrences :
          ms = [pc |-> "query", layout |-> L, pattern |-> pat, max |-> max,
                region |-> 1, scan_ptr |-> MIN_ADDRESS,
                buffer |-> [i \in 1 .. ScanChunk + Len(pat) - 1 |-> "0"],
                previous_read_size |-> 0, found |-> << >>,
                last_end |-> MIN_ADDRESS, torn |-> FALSE]
    /\ ScanIdle
    /\ FileIdle
    /\ BatchIdle
    /\ CacheIdle
    /\ ProcIdle
    /\ DirIdle
    /\ MonIdle
    /\ PathIdle

MemFrame ==
    UNCHANGED << scanVars, fileVars, batchVars, cacheVars, procVars, dirVars,
                 monVars, pathVars >>

\* Lines 93-117 and 161-165: the outer loop.  VirtualQueryEx gives the next
\* region, or fails behind the last one; a region that is not readable is
\* stepped over.
MemQuery ==
    /\ ms.pc = "query"
    /\ IF ms.region > Len(ms.layout) \/ Len(ms.found) >= ms.max
       THEN ms' = [ms EXCEPT !.pc = "done"]
       ELSE IF ms.layout[ms.region].readable
       THEN ms' = [ms EXCEPT !.pc = "scan",
                             !.scan_ptr = RegionBase(ms.layout, ms.region)]
       ELSE ms' = [ms EXCEPT !.region = @ + 1]
    /\ MemFrame

\* copy_within((previous_read_size - overlap_size)..previous_read_size, 0)
copy_overlap(buffer, prev, overlap) ==
    [i \in DOMAIN buffer |->
        IF i <= overlap THEN buffer[prev - overlap + i] ELSE buffer[i]]

\* ReadProcessMemory into buffer[overlap_size..]: n bytes are copied.
read_into(buffer, overlap, bytes, from, n) ==
    [i \in DOMAIN buffer |->
        IF overlap < i /\ i <= overlap + n
        THEN bytes[from + i - overlap] ELSE buffer[i]]

\* Lines 119-159: one turn of the inner loop.  The last pattern.len() - 1
\* bytes of the previous search area are moved to the front of the buffer
\* (previous_read_size - overlap_size underflows, and the call panics, when
\* fewer were read), the next chunk is read behind them, and the area is
\* searched.  A read that fails, or reads nothing, ends the region.
MemRead ==
    /\ ms.pc = "scan"
    /\ LET L == ms.layout
           r == ms.region
           pat == ms.pattern
           region_end == RegionEnd(L, r)
           overlap_size == IF ms.previous_read_size > 0
                           THEN Len(pat) - 1 ELSE 0
           bytes_to_read == Min(ScanChunk, region_end - ms.scan_ptr)
           from == ms.scan_ptr - RegionBase(L, r)
       IN  IF ms.scan_ptr >= region_end \/ Len(ms.found) >= ms.max
           THEN ms' = [ms EXCEPT !.pc = "query", !.region = @ + 1]
           ELSE IF overlap_size > ms.previous_read_size
           THEN ms' = [ms EXCEPT !.pc = "panicked"]
           ELSE LET moved == copy_overlap(ms.buffer, ms.previous_read_size,
                                          overlap_size)
                IN  \/ \E n \in 1 .. bytes_to_read :
                          LET buf == read_into(moved, overlap_size,
                                               L[r].bytes, from, n)
                              f == SearchArea(ms.found,
                                              SubSeq(buf, 1, overlap_size + n),
                                              pat, ms.scan_ptr - overlap_size,
                                              ms.max, 0)
                          IN  ms' = [ms EXCEPT
                                 !.pc = IF Len(f) >= ms.max THEN "done"
                                        ELSE "scan",
                                 !.buffer = buf,
                                 !.found = f,
                                 !.previous_read_size = overlap_size + n,
                                 !.scan_ptr = @ + n,
                                 !.last_end = ms.scan_ptr + n,
                                 !.torn = @ \/ (ms.previous_read_size > 0
                                                /\ ms.scan_ptr # ms.last_end)]
                    \/ \E n \in 0 .. bytes_to_read - 1 :
                          ms' = [ms EXCEPT
                                 !.pc = "query", !.region = @ + 1,
                                 !.buffer = read_into(moved, overlap_size,
                                                      L[r].bytes, from, n)]
    /\ MemFrame

NextMem == MemQuery \/ MemRead

SpecMem == InitMem /\ [][NextMem]_vars

\* C37: every address search_memory_for_pattern has found is an address at
\* which the pattern is, all of it in readable memory, whatever the regions,
\* the chunks of the reads and the reads that fail or come back short.
C37_MatchesAreOccurrences ==
    ms.pc # "off" =>
        \A i \in DOMAIN ms.found :
            TrueOccurrence(ms.layout, ms.pattern, ms.found[i])

\* Where C37 fails: the last byte of one region and the first byte of the
\* region behind the gap are reported as an occurrence, at an address in
\* the gap.
C37_MatchAcrossGap ==
    /\ ms.pc = "done"
    /\ Len(ms.layout) = 3
    /\ ~ms.layout[2].readable
    /\ ms.found = << RegionBase(ms.layout, 3) - 1 >>
    /\ ~TrueOccurrence(ms.layout, ms.pattern, ms.found[1])

\* As long as every read has started where the read before it ended, the
\* addresses found are occurrences.
MatchesAreOccurrencesUntilTorn ==
    (ms.pc # "off" /\ ~ms.torn) =>
        \A i \in DOMAIN ms.found :
            TrueOccurrence(ms.layout, ms.pattern, ms.found[i])

-----------------------------------------------------------------------------
(* Part 8: the output paths of a directory batch,
   src/core/src/wechat/decrypt/decrypt_files.rs.

   A path is the sequence of its components and a component the sequence
   of its units.  A unit is a character, or a unit that is not Unicode text:
   an unpaired surrogate of a Windows file name, a byte of a Unix file name
   that is not UTF-8.  "repl" is the character U+FFFD.  The files
   collect_files_recursively returns are distinct paths under the input
   directory whose extension is db.                                          *)

IllFormed == {"ill1", "ill2"}

REPLACEMENT == "repl"

Stems == {<< "a" >>, << "ill1" >>, << "ill2" >>, << REPLACEMENT >>}

DbNames == {stem \o << ".db" >> : stem \in Stems}

InDir == << << "in" >> >>

OutDir == << << "out" >> >>

SubDirs == {<< >>, << << "sub" >> >>}

\* The paths collect_files_recursively can return.
InputPaths == {InDir \o d \o << n >> : d \in SubDirs, n \in DbNames}

\* Path::strip_prefix(base).unwrap(), for a path under base
strip_prefix(path, base) == SubSeq(path, Len(base) + 1, Len(path))

\* Path::join with a relative path
join(base, rel) == base \o rel

\* Path::file_name, for a path that ends with a name
file_name(path) == path[Len(path)]

\* OsStr::to_string_lossy: what is not Unicode text becomes U+FFFD
to_string_lossy(name) ==
    [k \in DOMAIN name |->
        IF name[k] \in IllFormed THEN REPLACEMENT ELSE name[k]]

\* format!("decrypted_{}", ..)
decrypted_name(s) == << "decrypted_" >> \o s

\* PathBuf::set_file_name
set_file_name(path, name) == SubSeq(path, 1, Len(path) - 1) \o << name >>

\* The name the output file gets (line 241).
new_name(name) == decrypted_name(to_string_lossy(name))

\* lines 237-243: the output path of an input file
output_file(file_path, in_dir, out_dir) ==
    LET relative_path == strip_prefix(file_path, in_dir)
        joined == join(out_dir, relative_path)
    IN  set_file_name(joined, new_name(file_name(joined)))

PathTasks == 1 .. Len(op.files)

\* The futures buffer_unordered has taken from the stream that are not over.
PathsInProgress ==
    {i \in PathTasks : op.task[i].pc \in {"acquire", "decrypt"}}

\* The per-file decryptions that are writing their output file.
PathWriters(p) ==
    {i \in PathTasks : op.task[i].pc = "decrypt" /\ op.task[i].output_file = p}

InitPath ==
    /\ \E n \in 0 .. MaxFiles :
         \E fs \in [1 .. n -> InputPaths], t \in 1 .. MaxThreads :
            /\ \A i, j \in 1 .. n : i # j => fs[i] # fs[j]
            /\ op = [pc |-> "running", files |-> fs, threads |-> t,
                     permits |-> t, next |-> 1,
                     task |-> [i \in 1 .. n |->
                                 [pc |-> "created", output_file |-> << >>]]]
    /\ ScanIdle
    /\ FileIdle
    /\ BatchIdle
    /\ CacheIdle
    /\ ProcIdle
    /\ DirIdle
    /\ MonIdle
    /\ MemIdle

PathFrame ==
    UNCHANGED << scanVars, fileVars, batchVars, cacheVars, procVars, dirVars,
                 monVars, memVars >>

\* buffer_unordered(self.threads) takes the future of the next file (line
\* 263), which starts waiting for a permit (line 236).
PathPull ==
    /\ op.pc = "running"
    /\ op.next <= Len(op.files)
    /\ Cardinality(PathsInProgress) < op.threads
    /\ op' = [op EXCEPT !.task[op.next].pc = "acquire", !.next = @ + 1]
    /\ PathFrame

\* lines 236-251: with its permit the future computes the output path,
\* creates the parent directory and calls decrypt_file_with_auto_version,
\* which creates the output file and writes it.
PathDecrypt(i) ==
    /\ op.pc = "running"
    /\ op.task[i].pc = "acquire"
    /\ op.permits > 0
    /\ op' = [op EXCEPT
                !.permits = @ - 1,
                !.task[i] = [pc |-> "decrypt",
                             output_file |->
                                output_file(op.files[i], InDir, OutDir)]]
    /\ PathFrame

\* lines 251-260: the decryption is over, its result counted and the permit
\* dropped.
PathDone(i) ==
    /\ op.pc = "running"
    /\ op.task[i].pc = "decrypt"
    /\ op' = [op EXCEPT !.permits = @ + 1, !.task[i].pc = "done"]
    /\ PathFrame

\* line 263: collect() ends when every future is over.
PathFinish ==
    /\ op.pc = "running"
    /\ op.next > Len(op.files)
    /\ PathsInProgress = {}
    /\ op' = [op EXCEPT !.pc = "done"]
    /\ PathFrame

NextPath ==
    \/ PathPull
    \/ \E i \in PathTasks : PathDecrypt(i)
    \/ \E i \in PathTasks : PathDone(i)
    \/ PathFinish

SpecPath == InitPath /\ [][NextPath]_vars

\* The tasks whose output path is computed.
PathKnown == {i \in PathTasks : op.task[i].pc \in {"decrypt", "done"}}

\* The output directory joined with the file's path relative to the input
\* directory, the basename prefixed by decrypted_.
MirroredPath(file_path) ==
    LET rel == strip_prefix(file_path, InDir)
    IN  OutDir \o SubSeq(rel, 1, Len(rel) - 1)
               \o << << "decrypted_" >> \o rel[Len(rel)] >>

\* C40 (as stated): in a directory batch the output path of every input
\* file is the output directory joined with the file's relative path, its
\* basename prefixed by decrypted_; distinct input files have distinct
\* output paths, and no two per-file decryptions write the same output file
\* at the same time.
C40_DistinctOutputPaths ==
    /\ \A i \in PathKnown : op.task[i].output_file = MirroredPath(op.files[i])
    /\ \A i, j \in PathKnown :
          i # j => op.task[i].output_file # op.task[j].output_file
    /\ \A i \in PathTasks :
          Cardinality(PathWriters(op.task[i].output_file)) <= 1

\* Where C40 fails: two decryptions in progress write the same output file.
C40_TwoWritersOneFile ==
    \E i, j \in PathTasks :
        /\ i # j
        /\ op.files[i] # op.files[j]
        /\ op.task[i].pc = "decrypt"
        /\ op.task[j].pc = "decrypt"
        /\ op.task[i].output_file = op.task[j].output_file

\* The file names that are Unicode text.
IsUnicode(name) == \A k \in DOMAIN name : name[k] \notin IllFormed

\* For the input files whose name is Unicode text the output path is the
\* mirrored one, and among them the output paths are distinct.
OutputPathsDistinctForUnicode ==
    /\ \A i \in PathKnown :
          IsUnicode(file_name(op.files[i])) =>
             op.task[i].output_file = MirroredPath(op.files[i])
    /\ \A i, j \in PathKnown :
          (/\ i # j
           /\ IsUnicode(file_name(op.files[i]))
           /\ IsUnicode(file_name(op.files[j])))
             => op.task[i].output_file # op.task[j].output_file

=============================================================================
